---- MODULE Spec2Model ----
(***************************************************************************)
(* Reconciliation core of the zero-trust-workload-identity-manager         *)
(* operator: the SPIRE server reconciler and its children, the three       *)
(* daemon/deployment operand reconcilers, and the top-level aggregator.    *)
(* Every Reconcile is one atomic action (the runtime never runs two        *)
(* reconciles of one key concurrently); the store calls it issues are      *)
(* logged in `last` so that properties of one reconcile are state          *)
(* predicates.                                                             *)
(***************************************************************************)
EXTENDS Integers, Sequences, FiniteSets, TLC

(***************************************************************************)
(* Bounds of the model                                                     *)
(***************************************************************************)
\* external changes (spec edits, drift, deletions) explored per behaviour
MaxEnvSteps == 1
\* reconciles in a row, with no external change between them, that may
\* each change a stored object
MaxOwnChain == 5

(***************************************************************************)
(* Strings whose prefix the code inspects are pairs <<prefix, rest>>.      *)
(***************************************************************************)
Str(prefix, rest) == <<prefix, rest>>
EmptyStr == <<"", "">>
HasPrefix(s, p) == s[1] = p

\* utils.StringToBool: "true" is the only value the operator treats as set
StringToBool(s) == s = "true"

(***************************************************************************)
(* API types (api/v1alpha1).  Optional pointers are records with a `set`   *)
(* flag so that every value of a type has the same shape.                  *)
(***************************************************************************)
HttpsSpiffeProfile == "https_spiffe"
HttpsWebProfile == "https_web"

NoAcme ==
  [set |-> FALSE, directoryUrl |-> EmptyStr, domainName |-> "", email |-> "",
   tosAccepted |-> ""]
AcmeConfig(url, domain, email, tos) ==
  [set |-> TRUE, directoryUrl |-> url, domainName |-> domain, email |-> email,
   tosAccepted |-> tos]

NoServingCert ==
  [set |-> FALSE, secretName |-> "", fileSyncInterval |-> 0,
   externalCertificate |-> ""]
ServingCertConfig(secret, interval, external) ==
  [set |-> TRUE, secretName |-> secret, fileSyncInterval |-> interval,
   externalCertificate |-> external]

NoHttpsWeb == [set |-> FALSE, acme |-> NoAcme, servingCert |-> NoServingCert]
HttpsWebConfig(acme, cert) == [set |-> TRUE, acme |-> acme, servingCert |-> cert]

BundleEndpointConfig(port, profile, hint, web) ==
  [port |-> port, profile |-> profile, refreshHint |-> hint, httpsWeb |-> web]

FederatesWithConfig(td, url, profile, id) ==
  [trustDomain |-> td, bundleEndpointUrl |-> url,
   bundleEndpointProfile |-> profile, endpointSpiffeId |-> id]

NoFederation ==
  [set |-> FALSE,
   bundleEndpoint |-> BundleEndpointConfig(0, "", 0, NoHttpsWeb),
   federatesWith |-> <<>>, managedRoute |-> ""]
FederationConfig(endpoint, with, managedRoute) ==
  [set |-> TRUE, bundleEndpoint |-> endpoint, federatesWith |-> with,
   managedRoute |-> managedRoute]

\* a parsed JWT issuer URL
Url(scheme, host, path, query, fragment) ==
  [scheme |-> scheme, host |-> host, path |-> path, query |-> query,
   fragment |-> fragment]

SpireServerSpec(td, issuer, ca, x509, jwt, labels, fed) ==
  [trustDomain |-> td, clusterName |-> "c1", jwtIssuer |-> issuer,
   caValidity |-> ca, defaultX509Validity |-> x509, defaultJWTValidity |-> jwt,
   labels |-> labels, federation |-> fed]

(***************************************************************************)
(* Validators.  Each returns the error it reports, "" for nil.             *)
(***************************************************************************)
\* utils.IsValidURL: an absolute URL with scheme and host and nothing else
IsValidURL(u) ==
  /\ u.scheme \in {"https", "http"}
  /\ u.host # ""
  /\ u.path = "" /\ u.query = "" /\ u.fragment = ""

\* validateTTLDurationsWithWarnings: the error part
validateTTLDurations(spec) ==
  IF spec.caValidity <= 0 \/ spec.defaultX509Validity <= 0
       \/ spec.defaultJWTValidity <= 0
  THEN "ttl must be positive"
  ELSE IF spec.caValidity < spec.defaultX509Validity
            \/ spec.caValidity < spec.defaultJWTValidity
       THEN "ca validity shorter than svid ttl"
       ELSE ""

\* validateTTLDurationsWithWarnings: the warning part (SVID TTL reaching
\* the CA validity)
ttlWarnings(spec) ==
  spec.defaultX509Validity = spec.caValidity
    \/ spec.defaultJWTValidity = spec.caValidity

validateAcmeConfig(acme) ==
  IF ~acme.set THEN ""
  ELSE IF ~HasPrefix(acme.directoryUrl, "https://") THEN "directoryUrl must use https://"
  ELSE IF acme.domainName = "" THEN "domainName is required"
  ELSE IF acme.email = "" THEN "email is required"
  ELSE IF ~StringToBool(acme.tosAccepted) THEN "tosAccepted must be true to use ACME"
  ELSE ""

\* a serving-cert check that asks for the secret name only
validateServingCertSecretOnly(servingCert) ==
  IF ~servingCert.set THEN ""
  ELSE IF servingCert.secretName = "" THEN "secretName is required"
  ELSE ""

validateServingCertConfig(servingCert) ==
  IF ~servingCert.set THEN ""
  ELSE IF servingCert.secretName = "" THEN "secretName is required"
  ELSE IF servingCert.fileSyncInterval > 0
            /\ (servingCert.fileSyncInterval < 30 \/ servingCert.fileSyncInterval > 3600)
       THEN "fileSyncInterval must be between 30 and 3600 seconds"
  ELSE ""

\* a Web-PKI check that lets ACME and a serving cert stand side by side
validateHttpsWebAllowingBoth(web) ==
  LET acmeSet == web.acme.set
      certSet == web.servingCert.set
  IN  IF ~web.set THEN "httpsWeb configuration is required when profile is https_web"
      ELSE IF ~acmeSet /\ ~certSet THEN "either acme or servingCert must be set"
      ELSE IF acmeSet /\ validateAcmeConfig(web.acme) # "" THEN "invalid ACME configuration"
      ELSE IF certSet /\ validateServingCertConfig(web.servingCert) # ""
           THEN "invalid ServingCert configuration"
      ELSE ""

validateHttpsWeb(web) ==
  LET acmeSet == web.acme.set
      certSet == web.servingCert.set
  IN  IF ~web.set THEN "httpsWeb configuration is required when profile is https_web"
      ELSE IF acmeSet /\ certSet THEN "acme and servingCert are mutually exclusive"
      ELSE IF ~acmeSet /\ ~certSet THEN "either acme or servingCert must be set"
      ELSE IF acmeSet /\ validateAcmeConfig(web.acme) # "" THEN "invalid ACME configuration"
      ELSE IF certSet /\ validateServingCertConfig(web.servingCert) # ""
           THEN "invalid ServingCert configuration"
      ELSE ""

validateBundleEndpoint(bundleEndpoint) ==
  IF bundleEndpoint.profile = HttpsWebProfile /\ validateHttpsWeb(bundleEndpoint.httpsWeb) # ""
  THEN validateHttpsWeb(bundleEndpoint.httpsWeb)
  ELSE IF bundleEndpoint.port < 1 \/ bundleEndpoint.port > 65535
  THEN "port must be between 1 and 65535"
  ELSE IF bundleEndpoint.refreshHint > 0
            /\ (bundleEndpoint.refreshHint < 60 \/ bundleEndpoint.refreshHint > 3600)
  THEN "refreshHint must be between 60 and 3600 seconds"
  ELSE ""

\* an entry check that asks for no endpoint SPIFFE ID
validateFederatedTrustDomainWithoutId(fedTrust, trustDomain) ==
  IF fedTrust.trustDomain = trustDomain THEN "cannot federate with own trust domain"
  ELSE IF fedTrust.trustDomain = "" THEN "trustDomain is required"
  ELSE IF ~HasPrefix(fedTrust.bundleEndpointUrl, "https://")
  THEN "bundleEndpointUrl must use https://"
  ELSE ""

validateFederatedTrustDomain(fedTrust, trustDomain) ==
  IF fedTrust.trustDomain = trustDomain THEN "cannot federate with own trust domain"
  ELSE IF fedTrust.trustDomain = "" THEN "trustDomain is required"
  ELSE IF ~HasPrefix(fedTrust.bundleEndpointUrl, "https://")
  THEN "bundleEndpointUrl must use https://"
  ELSE IF fedTrust.bundleEndpointProfile = HttpsSpiffeProfile
            /\ fedTrust.endpointSpiffeId = EmptyStr
  THEN "endpointSpiffeId is required for https_spiffe profile"
  ELSE IF fedTrust.bundleEndpointProfile = HttpsSpiffeProfile
            /\ ~HasPrefix(fedTrust.endpointSpiffeId, "spiffe://")
  THEN "endpointSpiffeId must start with spiffe://"
  ELSE ""

MaxFederatesWith == 50

validateFederationConfig(federation, trustDomain) ==
  IF ~federation.set THEN ""
  ELSE IF validateBundleEndpoint(federation.bundleEndpoint) # ""
  THEN "invalid bundle endpoint configuration"
  ELSE IF Len(federation.federatesWith) > MaxFederatesWith
  THEN "federatesWith array cannot exceed 50 entries"
  ELSE IF \E i \in 1..Len(federation.federatesWith) :
            validateFederatedTrustDomain(federation.federatesWith[i], trustDomain) # ""
  THEN LET i == CHOOSE j \in 1..Len(federation.federatesWith) :
                  /\ validateFederatedTrustDomain(federation.federatesWith[j], trustDomain) # ""
                  /\ \A k \in 1..(j - 1) :
                       validateFederatedTrustDomain(federation.federatesWith[k], trustDomain) = ""
       IN  validateFederatedTrustDomain(federation.federatesWith[i], trustDomain)
  ELSE ""

(***************************************************************************)
(* Rendering of the server's children.  A text is its body with the        *)
(* amount of leading and trailing whitespace.                              *)
(***************************************************************************)
Text(body, lead, trail) == [body |-> body, lead |-> lead, trail |-> trail]
TrimSpace(t) == [t EXCEPT !.lead = 0, !.trail = 0]

\* fmt.Sprintf("%ds", n)
Seconds(n) == <<n, "s">>
Absent == <<>>

FederationPort == 8443

AcmeKey(kind, acme) ==
  [kind |-> kind, directory_url |-> acme.directoryUrl,
   domain_name |-> acme.domainName, email |-> acme.email,
   tos_accepted |-> StringToBool(acme.tosAccepted)]

\* a file path is the pair of its directory and its file name
Path(dir, file) == <<dir, file>>
Dir(path) == path[1]

ServingCertFile(present, interval) ==
  [present |-> present,
   cert_file_path |-> IF present THEN Path("/run/spire/federation-certs", "tls.crt")
                      ELSE Path("", ""),
   key_file_path |-> IF present THEN Path("/run/spire/federation-certs", "tls.key")
                     ELSE Path("", ""),
   file_sync_interval |-> interval]

generateBundleEndpointConfig(bundleEndpoint) ==
  LET web == bundleEndpoint.httpsWeb
      useWeb == bundleEndpoint.profile = HttpsWebProfile /\ web.set
  IN  [address |-> "0.0.0.0",
       port |-> FederationPort,
       refresh_hint |-> IF bundleEndpoint.refreshHint > 0
                        THEN Seconds(bundleEndpoint.refreshHint) ELSE Absent,
       acme |-> IF bundleEndpoint.profile = HttpsSpiffeProfile
                THEN AcmeKey("null", NoAcme)
                ELSE IF useWeb /\ web.acme.set THEN AcmeKey("object", web.acme)
                ELSE AcmeKey("absent", NoAcme),
       serving_cert_file |->
         IF useWeb /\ ~web.acme.set /\ web.servingCert.set
         THEN ServingCertFile(TRUE,
                IF web.servingCert.fileSyncInterval > 0
                THEN Seconds(web.servingCert.fileSyncInterval) ELSE Absent)
         ELSE ServingCertFile(FALSE, Absent)]

\* the federates_with map: keyed by trust domain, a later entry overwrites
\* an earlier one, the server's own trust domain is skipped
federatesWithMap(federation, trustDomain) ==
  LET fw == federation.federatesWith
  IN  { [trust_domain |-> fw[i].trustDomain,
         bundle_endpoint_url |-> fw[i].bundleEndpointUrl,
         profile |-> IF fw[i].bundleEndpointProfile
                          \in {HttpsSpiffeProfile, HttpsWebProfile}
                     THEN fw[i].bundleEndpointProfile ELSE "",
         endpoint_spiffe_id |-> IF fw[i].bundleEndpointProfile = HttpsSpiffeProfile
                                THEN fw[i].endpointSpiffeId ELSE EmptyStr] :
        i \in { j \in 1..Len(fw) :
                  /\ fw[j].trustDomain # trustDomain
                  /\ \A k \in (j + 1)..Len(fw) : fw[k].trustDomain # fw[j].trustDomain } }

generateFederationConfig(federation, trustDomain) ==
  [present |-> TRUE,
   bundle_endpoint |-> generateBundleEndpointConfig(federation.bundleEndpoint),
   has_federates_with |-> Len(federation.federatesWith) > 0,
   federates_with |-> federatesWithMap(federation, trustDomain)]

NoFederationConf ==
  [present |-> FALSE,
   bundle_endpoint |-> generateBundleEndpointConfig(NoFederation.bundleEndpoint),
   has_federates_with |-> FALSE,
   federates_with |-> {}]

generateServerConfMap(config) ==
  [cluster |-> config.clusterName,
   ca_ttl |-> config.caValidity,
   default_jwt_svid_ttl |-> config.defaultJWTValidity,
   default_x509_svid_ttl |-> config.defaultX509Validity,
   jwt_issuer |-> config.jwtIssuer,
   trust_domain |-> config.trustDomain,
   federation |-> IF config.federation.set
                  THEN generateFederationConfig(config.federation, config.trustDomain)
                  ELSE NoFederationConf]

\* the orders in which a range over a Go map may yield its entries
MapOrders(entries) ==
  {order \in [1..Cardinality(entries) -> entries] :
     \A e \in entries : \E i \in 1..Cardinality(entries) : order[i] = e}

\* the keys of federates_with in the order of sort.Strings
SortedKeys == <<"cluster1.example.com", "cluster2.example.com", "cluster3.example.com">>

\* encoding/json writes the entries of a map sorted by key
sortedByKey(order) ==
  LET present(td) == \E i \in 1..Len(order) : order[i].trust_domain = td
      keys == SelectSeq(SortedKeys, present)
  IN  [i \in 1..Len(keys) |->
         order[CHOOSE j \in 1..Len(order) : order[j].trust_domain = keys[i]]]

\* a serialisation that writes the entries of a map as the range yields them
marshalInMapOrder(confMap, order) ==
  Text([confMap EXCEPT !.federation.federates_with = order], 0, 0)

\* json.MarshalIndent: no whitespace around the document; `order` is the
\* order in which the entries of the federates_with map are met
marshalToJSON(confMap, order) ==
  Text([confMap EXCEPT !.federation.federates_with = sortedByKey(order)], 0, 0)

\* sha256 of the trimmed input, hex encoded
generateConfigHash(data) == [sha256 |-> TrimSpace(data).body]
generateConfigHashFromString(data) == generateConfigHash(TrimSpace(data))

\* utils.SpireControllerManagerLabels
SpireControllerManagerLabels(custom) ==
  [name |-> "spire-controller-manager", component |-> "control-plane",
   managedBy |-> "zero-trust-workload-identity-manager", custom |-> custom]

\* the controller-manager configuration, marshalled as YAML: one document
\* ending in a newline; its metadata carries the labels of the CR
generateSpireControllerManagerConfigYaml(config) ==
  Text([clusterName |-> config.clusterName, trustDomain |-> config.trustDomain,
        labels |-> SpireControllerManagerLabels(config.labels)], 0, 1)

\* utils.SpireServerLabels: the standard labels plus the CR's custom labels
SpireServerLabels(custom) ==
  [name |-> "spire-server", component |-> "control-plane",
   managedBy |-> "zero-trust-workload-identity-manager", custom |-> custom]

(***************************************************************************)
(* The API server: objects, calls and their outcome.                       *)
(***************************************************************************)
ServerConfigMap == "ConfigMap/spire-server"
ControllerManagerConfigMap == "ConfigMap/spire-controller-manager"
BundleConfigMap == "ConfigMap/spire-bundle"
StatefulSet == "StatefulSet/spire-server"
federationServiceName == "Service/spire-server-federation"
federationRouteName == "Route/spire-server-federation"

ServerChildren ==
  {ServerConfigMap, ControllerManagerConfigMap, BundleConfigMap, StatefulSet,
   federationServiceName, federationRouteName}

\* the Role and RoleBinding that let the ingress router read the secret of
\* an external certificate (utils.SpireServerExternalCertRoleName)
ServerExternalCertRBAC == "RBAC/spire-server-external-cert-reader"

\* the Services reconcileService handles
ServerService == "Service/spire-server"
ControllerManagerService == "Service/spire-controller-manager-webhook"
ServiceChildren == {ServerService, ControllerManagerService}
ServiceKinds == ServiceChildren \cup {federationServiceName}

NoLabels == [name |-> "", component |-> "", managedBy |-> "", custom |-> ""]
NoOwner == ""

\* the fields of a Service the cluster assigns: none in an object a client
\* builds, allocated when the API server creates the Service
Unassigned ==
  [clusterIP |-> <<>>, clusterIPs |-> <<>>, ipFamilies |-> <<>>, ipFamilyPolicy |-> "",
   internalTrafficPolicy |-> "", sessionAffinity |-> "", healthCheckNodePort |-> 0]
Allocated(kind) ==
  IF kind \in ServiceKinds
  THEN [clusterIP |-> <<"ip of", kind>>, clusterIPs |-> <<<<"ip of", kind>>>>,
        ipFamilies |-> <<"IPv4">>, ipFamilyPolicy |-> "SingleStack",
        internalTrafficPolicy |-> "Cluster", sessionAffinity |-> "None",
        healthCheckNodePort |-> 0]
  ELSE Unassigned

\* an object as a client builds it, before the API server has seen it
Object(labels, data) ==
  [exists |-> TRUE, rv |-> 0, owner |-> NoOwner, labels |-> labels,
   data |-> data, edited |-> FALSE, assigned |-> Unassigned]
NoObject ==
  [exists |-> FALSE, rv |-> 0, owner |-> NoOwner, labels |-> NoLabels,
   data |-> <<>>, edited |-> FALSE, assigned |-> Unassigned]

\* controllerutil.SetControllerReference
SetControllerReference(owner, obj) == [obj EXCEPT !.owner = owner]

NoFault == [kind |-> "", op |-> ""]
Failing(fault, kind, op) == fault.kind = kind /\ fault.op = op

Call(verb, kind, obj, err) == [verb |-> verb, kind |-> kind, obj |-> obj, err |-> err]

\* what differs between two objects apart from the resource version
SameContent(a, b) == [a EXCEPT !.rv = 0] = [b EXCEPT !.rv = 0]

\* the state a reconcile threads through its steps: the store, the calls
\* issued so far, the reconcileStatus map, and the return taken
NoStatus == [set |-> FALSE, status |-> "", reason |-> "", message |-> <<>>]
Status(status, reason, message) ==
  [set |-> TRUE, status |-> status, reason |-> reason, message |-> message]

SetStatus(acc, type, status, reason) ==
  [acc EXCEPT !.status[type] = Status(status, reason, <<>>)]
\* statusMgr.AddCondition
AddCondition(acc, type, reason, message, status) ==
  [acc EXCEPT !.status[type] = Status(status, reason, message)]
Return(acc, err) == [acc EXCEPT !.done = TRUE, !.err = err]
LastErr(acc) == acc.calls[Len(acc.calls)].err

storeCreate(acc, kind, obj, fault) ==
  LET err == IF Failing(fault, kind, "Create") THEN "Internal"
             ELSE IF acc.store[kind].exists THEN "AlreadyExists" ELSE ""
  IN  [acc EXCEPT !.calls = Append(@, Call("Create", kind, obj, err)),
                  !.store[kind] = IF err = ""
                                  THEN [obj EXCEPT !.rv = 1, !.assigned = Allocated(kind)]
                                  ELSE @]

\* optimistic concurrency: an update that carries a resource version must
\* carry the stored one, an update that carries none overwrites what is
\* stored; an update that changes nothing leaves the version alone
storeUpdate(acc, kind, obj, fault) ==
  LET cur == acc.store[kind]
      err == IF Failing(fault, kind, "Update") THEN "Internal"
             ELSE IF ~cur.exists THEN "NotFound"
             ELSE IF obj.rv # 0 /\ obj.rv # cur.rv THEN "Conflict" ELSE ""
      new == IF SameContent(obj, cur) THEN cur ELSE [obj EXCEPT !.rv = cur.rv + 1]
  IN  [acc EXCEPT !.calls = Append(@, Call("Update", kind, obj, err)),
                  !.store[kind] = IF err = "" THEN new ELSE @]

storeDelete(acc, kind, fault) ==
  LET cur == acc.store[kind]
      err == IF Failing(fault, kind, "Delete") THEN "Internal"
             ELSE IF ~cur.exists THEN "NotFound" ELSE ""
  IN  [acc EXCEPT !.calls = Append(@, Call("Delete", kind, cur, err)),
                  !.store[kind] = IF err = "" THEN NoObject ELSE @]

\* another client writes the object between the Get and the Update of a
\* reconcile
concurrentWrite(acc, kind, fault) ==
  IF Failing(fault, kind, "ConcurrentWrite") /\ acc.store[kind].exists
  THEN [acc EXCEPT !.store[kind].rv = @ + 1, !.store[kind].edited = TRUE]
  ELSE acc

\* an update built from the generated object alone
withoutResourceVersion(desired, existing) == desired

\* desired.ResourceVersion = existing.ResourceVersion
withResourceVersion(desired, existing) == [desired EXCEPT !.rv = existing.rv]

\* the Update that persists an owner reference on an operand CR
storeUpdateCR(acc, kind, fault) ==
  [acc EXCEPT !.calls = Append(@, Call("Update", kind, NoObject,
                                       IF Failing(fault, kind, "Update")
                                       THEN "Internal" ELSE ""))]

(***************************************************************************)
(* Desired state of the server's children.                                 *)
(***************************************************************************)
SpireServer == "SpireServer"

\* the error GenerateSpireServerConfigMap reports, "" for nil
serverConfigMapError(config) ==
  IF config.trustDomain = "" THEN "trust_domain is empty" ELSE ""

GenerateSpireServerConfigMap(config, order) ==
  Object(SpireServerLabels(config.labels),
         marshalToJSON(generateServerConfMap(config), order))

generateControllerManagerConfigMap(configYAML) ==
  Object(SpireControllerManagerLabels(""), configYAML)

generateSpireBundleConfigMap(config) ==
  Object(SpireServerLabels(config.labels), Text("", 0, 0))

GrpcPort == 8081
HealthzPort == 8080

\* the serving cert mounted where the server keeps its own TLS secret
addFederationAtServerTLS(podSpec, federation) ==
  IF federation.bundleEndpoint.httpsWeb.set
       /\ federation.bundleEndpoint.httpsWeb.servingCert.set
  THEN [podSpec EXCEPT
          !.volumeMounts = @ \cup {<<"federation-certs", "/run/spire/server-tls">>},
          !.volumes = @ \cup {<<"federation-certs",
                                federation.bundleEndpoint.httpsWeb.servingCert.secretName>>}]
  ELSE podSpec

addFederationToStatefulSet(podSpec, federation) ==
  IF federation.bundleEndpoint.httpsWeb.set
       /\ federation.bundleEndpoint.httpsWeb.servingCert.set
  THEN [podSpec EXCEPT
          !.volumeMounts = @ \cup {<<"federation-certs", "/run/spire/federation-certs">>},
          !.volumes = @ \cup {<<"federation-certs",
                                federation.bundleEndpoint.httpsWeb.servingCert.secretName>>}]
  ELSE podSpec

GenerateSpireServerStatefulSet(config, spireServerConfigMapHash, spireControllerMangerConfigMapHash) ==
  LET podSpec ==
        [ports |-> {<<"grpc", GrpcPort>>, <<"healthz", HealthzPort>>,
                    <<"federation", FederationPort>>},
         volumeMounts |-> {<<"spire-config", "/run/spire/config">>,
                           <<"spire-data", "/run/spire/data">>,
                           <<"spire-server-tls", "/run/spire/server-tls">>},
         volumes |-> {<<"spire-config", "spire-server">>,
                      <<"spire-server-tls", "spire-server-serving-cert">>}]
  IN  Object(SpireServerLabels(config.labels),
             [serverConfigHash |-> spireServerConfigMapHash,
              controllerManagerConfigHash |-> spireControllerMangerConfigMapHash,
              spec |-> IF config.federation.set
                       THEN addFederationToStatefulSet(podSpec, config.federation)
                       ELSE podSpec])

\* a comparison that leaves the hash annotations out
needsUpdateIgnoringHashes(current, desired) ==
  \/ current.labels # desired.labels
  \/ current.edited
  \/ current.data.spec # desired.data.spec

\* needsUpdate: a hash annotation, the labels or the spec differ
needsUpdate(current, desired) ==
  \/ current.data.serverConfigHash # desired.data.serverConfigHash
  \/ current.data.controllerManagerConfigHash # desired.data.controllerManagerConfigHash
  \/ current.labels # desired.labels
  \/ current.edited
  \/ current.data.spec # desired.data.spec

\* the federation Service ensureFederationService builds
generateFederationService(config) ==
  Object(SpireServerLabels(config.labels),
         [ports |-> {[name |-> "federation", port |-> config.federation.bundleEndpoint.port,
                      targetPort |-> config.federation.bundleEndpoint.port,
                      protocol |-> "TCP"]},
          selector |-> [name |-> "spire-server", instance |-> "cluster-zero-trust-workload-identity-manager"]])

NoTLS == [set |-> FALSE, termination |-> "", insecurePolicy |-> "", externalCertificate |-> ""]
TLSConfig(termination, external) ==
  [set |-> TRUE, termination |-> termination, insecurePolicy |-> "Redirect",
   externalCertificate |-> external]

\* a route that leaves the host to the router
hostLeftToRouter(trustDomain) == <<"", "">>

\* federationHost := "federation." + server.Spec.TrustDomain
federationHost(trustDomain) == <<"federation.", trustDomain>>

\* a route that terminates every profile the same way
generatePassthroughRoute(config) ==
  Object(SpireServerLabels(config.labels),
         [host |-> federationHost(config.trustDomain), to |-> "spire-server",
          targetPort |-> "federation", tls |-> TLSConfig("passthrough", "")])

\* a route that takes the secret of the serving cert for its own
generateRouteWithServingCertSecret(config) ==
  LET endpoint == config.federation.bundleEndpoint
  IN  Object(SpireServerLabels(config.labels),
             [host |-> federationHost(config.trustDomain),
              to |-> "spire-server",
              targetPort |-> "federation",
              tls |-> IF endpoint.profile = HttpsSpiffeProfile
                      THEN TLSConfig("passthrough", "")
                      ELSE IF endpoint.profile = HttpsWebProfile
                      THEN TLSConfig("reencrypt",
                             IF endpoint.httpsWeb.set /\ endpoint.httpsWeb.servingCert.set
                             THEN endpoint.httpsWeb.servingCert.secretName
                             ELSE "")
                      ELSE NoTLS])

generateFederationRoute(config) ==
  LET endpoint == config.federation.bundleEndpoint
  IN  Object(SpireServerLabels(config.labels),
             [host |-> federationHost(config.trustDomain),
              to |-> "spire-server",
              targetPort |-> "federation",
              tls |-> IF endpoint.profile = HttpsSpiffeProfile
                      THEN TLSConfig("passthrough", "")
                      ELSE IF endpoint.profile = HttpsWebProfile
                      THEN TLSConfig("reencrypt",
                             IF endpoint.httpsWeb.set /\ endpoint.httpsWeb.servingCert.set
                             THEN endpoint.httpsWeb.servingCert.externalCertificate
                             ELSE "")
                      ELSE NoTLS])

\* checkFederationRouteConflict: spec or labels differ
checkFederationRouteConflict(current, desired) ==
  current.edited \/ current.data # desired.data \/ current.labels # desired.labels

(***************************************************************************)
(* Conditions.                                                             *)
(***************************************************************************)
SpireServerStatefulSetGeneration == "SpireServerStatefulSetGeneration"
SpireServerConfigMapGeneration == "SpireServerConfigMapGeneration"
SpireControllerManagerConfigMapGeneration == "SpireControllerManagerConfigMapGeneration"
SpireBundleConfigMapGeneration == "SpireBundleConfigMapGeneration"
SpireServerTTLValidation == "SpireServerTTLValidation"
ConfigurationValidation == "ConfigurationValidation"
FederationConfigurationValid == "FederationConfigurationValid"
FederationServiceReady == "FederationServiceReady"
FederationRouteReady == "FederationRouteReady"
CreateOnlyModeStatusType == "CreateOnlyMode"
Ready == "Ready"
ConfigurationValid == "ConfigurationValid"
ChildrenAvailable == "ChildrenAvailable"
WorkloadAvailable == "WorkloadAvailable"
OperandsAvailable == "OperandsAvailable"
ServiceAvailable == "ServiceAvailable"
Upgradeable == "Upgradeable"

ConditionTypes ==
  {SpireServerStatefulSetGeneration, SpireServerConfigMapGeneration,
   SpireControllerManagerConfigMapGeneration, SpireBundleConfigMapGeneration,
   SpireServerTTLValidation, ConfigurationValidation,
   FederationConfigurationValid, FederationServiceReady, FederationRouteReady,
   CreateOnlyModeStatusType, Ready, ConfigurationValid, ChildrenAvailable,
   WorkloadAvailable, OperandsAvailable, ServiceAvailable}

NoCondition == [status |-> "", reason |-> "", message |-> <<>>]
Condition(status, reason, message) ==
  [status |-> status, reason |-> reason, message |-> message]
NoConditions == [t \in ConditionTypes |-> NoCondition]

\* apimeta.SetStatusCondition: status, reason and message are overwritten
SetStatusCondition(conditions, type, new) ==
  [conditions EXCEPT ![type] = Condition(new.status, new.reason, new.message)]

\* a deferred update that leaves out the conditions reporting a failure
applyTrueConditionsOnly(conditions, status) ==
  [t \in ConditionTypes |->
     IF status[t].set /\ status[t].status = "True"
     THEN Condition(status[t].status, status[t].reason, status[t].message)
     ELSE conditions[t]]

\* the conditions an object carries once a reconcileStatus map is applied
applyReconcileStatus(conditions, status) ==
  [t \in ConditionTypes |->
     IF status[t].set
     THEN Condition(status[t].status, status[t].reason, status[t].message)
     ELSE conditions[t]]

\* a SetStatusCondition that takes the time of the write whatever it finds
neverKeepsTransitionTime(existing, status) == FALSE

\* apimeta.SetStatusCondition keeps the lastTransitionTime of a condition
\* whose status it finds unchanged and takes the new one (metav1.Now())
\* when the type is new or the status differs
keepsTransitionTime(existing, status) == existing.status = status

\* the types whose lastTransitionTime a status write moves
transitioned(conditions, status) ==
  {t \in ConditionTypes :
     status[t].set /\ ~keepsTransitionTime(conditions[t], status[t].status)}

NewAcc(store) ==
  [store |-> store, calls |-> <<>>, status |-> [t \in ConditionTypes |-> NoStatus],
   done |-> FALSE, err |-> FALSE, invalid |-> ""]

(***************************************************************************)
(* SpireServerReconciler.Reconcile, step by step.  Every step takes and    *)
(* returns the accumulated state; a step after a return is skipped.        *)
(***************************************************************************)
\* a create-only step whose mode also follows the condition stored on the CR
serverCreateOnlyStepFromStatus(acc, server, createOnlyMode) ==
  IF createOnlyMode \/ server.conditions[CreateOnlyModeStatusType].status = "True"
  THEN SetStatus(acc, CreateOnlyModeStatusType, "True", "CreateOnlyModeEnabled")
  ELSE acc

\* a create-only step that reports the disabled mode in every reconcile
\* of an inactive process
serverCreateOnlyStepAlwaysReports(acc, server, createOnlyMode) ==
  IF createOnlyMode
  THEN AddCondition(acc, CreateOnlyModeStatusType, "CreateOnlyModeEnabled", <<>>, "True")
  ELSE AddCondition(acc, CreateOnlyModeStatusType, "CreateOnlyModeDisabled", <<>>, "False")

\* controller.go 120-137
serverCreateOnlyStep(acc, server, createOnlyMode) ==
  IF createOnlyMode
  THEN SetStatus(acc, CreateOnlyModeStatusType, "True", "CreateOnlyModeEnabled")
  ELSE IF server.conditions[CreateOnlyModeStatusType].status = "True"
  THEN SetStatus(acc, CreateOnlyModeStatusType, "False", "CreateOnlyModeDisabled")
  ELSE acc

\* a validation failure reported to the runtime as an error
InvalidAsError(acc, type, reason, what) ==
  [SetStatus(acc, type, "False", reason) EXCEPT !.done = TRUE, !.err = TRUE,
                                                !.invalid = what]

\* a user-input validation failed: record it and return without requeue
Invalid(acc, type, reason, what) ==
  [SetStatus(acc, type, "False", reason) EXCEPT !.done = TRUE, !.err = FALSE,
                                                !.invalid = what]

\* controller.go 139-158
jwtIssuerValidationStep(acc, server) ==
  IF acc.done THEN acc
  ELSE IF ~IsValidURL(server.spec.jwtIssuer)
  THEN Invalid(acc, ConfigurationValidation, "InvalidJWTIssuerURL", "jwtIssuer")
  ELSE IF server.conditions[ConfigurationValidation].status = "False"
  THEN SetStatus(acc, ConfigurationValidation, "True", "ValidJWTIssuerURL")
  ELSE acc

\* controller.go 160-164 and handleTTLValidation
handleTTLValidation(acc, server) ==
  IF acc.done THEN acc
  ELSE IF validateTTLDurations(server.spec) # ""
  THEN Invalid(acc, SpireServerTTLValidation, "TTLValidationFailed", "ttl")
  ELSE IF ttlWarnings(server.spec)
  THEN SetStatus(acc, SpireServerTTLValidation, "True", "TTLValidationWarning")
  ELSE SetStatus(acc, SpireServerTTLValidation, "True", "TTLValidationSucceeded")

\* a reconcile that goes on to the children without validating federation
federationValidationSkipped(acc, server) == acc

\* controller.go 166-187
federationValidationStep(acc, server) ==
  IF acc.done \/ ~server.spec.federation.set THEN acc
  ELSE IF validateFederationConfig(server.spec.federation, server.spec.trustDomain) # ""
  THEN Invalid(acc, FederationConfigurationValid, "InvalidFederationConfiguration",
               "federation")
  ELSE IF server.conditions[FederationConfigurationValid].status \in {"", "False"}
  THEN SetStatus(acc, FederationConfigurationValid, "True", "ValidFederationConfiguration")
  ELSE acc

\* Get, then Create when absent, Update when different unless create-only
\* (controller.go 210-250, 282-320, 372-407)
\* a create-only mode that freezes the cluster: nothing is created either
createNothingInCreateOnly(acc, kind, desired, differs, createOnlyMode, fault, type, failReason, okReason, statusOnGetError) ==
  IF acc.done THEN acc
  ELSE IF createOnlyMode \/ acc.store[kind].exists
  THEN SetStatus(acc, type, "True", okReason)
  ELSE LET a == storeCreate(acc, kind, desired, fault)
       IN  IF LastErr(a) # "" THEN Return(SetStatus(a, type, "False", failReason), TRUE)
           ELSE SetStatus(a, type, "True", okReason)

createOrUpdate(acc, kind, desired, differs, createOnlyMode, fault, type, failReason, okReason, statusOnGetError) ==
  LET existing == acc.store[kind]
      failed(a) == Return(SetStatus(a, type, "False", failReason), TRUE)
      ok(a) == SetStatus(a, type, "True", okReason)
  IN  IF acc.done THEN acc
      ELSE IF Failing(fault, kind, "Get")
      THEN IF statusOnGetError THEN failed(acc) ELSE Return(acc, TRUE)
      ELSE IF ~existing.exists
      THEN LET a == storeCreate(acc, kind, desired, fault)
           IN  IF LastErr(a) # "" THEN failed(a) ELSE ok(a)
      ELSE IF differs /\ ~createOnlyMode
      THEN LET a == storeUpdate(concurrentWrite(acc, kind, fault), kind,
                                withResourceVersion(desired, existing), fault)
           IN  IF LastErr(a) # "" THEN failed(a) ELSE ok(a)
      ELSE ok(acc)

\* controller.go 189-250
serverConfigMapStep(acc, server, createOnlyMode, fault, order) ==
  LET desired == SetControllerReference(SpireServer,
                   GenerateSpireServerConfigMap(server.spec, order))
      existing == acc.store[ServerConfigMap]
  IN  IF acc.done THEN acc
      ELSE IF serverConfigMapError(server.spec) # ""
      THEN Return(SetStatus(acc, SpireServerConfigMapGeneration, "False",
                            "SpireServerConfigMapGenerationFailed"), TRUE)
      ELSE createOrUpdate(acc, ServerConfigMap, desired,
             existing.exists /\ (existing.edited \/ existing.data # desired.data
                                   \/ existing.labels # desired.labels),
             createOnlyMode, fault, SpireServerConfigMapGeneration,
             "SpireServerConfigMapGenerationFailed", "SpireConfigMapResourceCreated", TRUE)

\* controller.go 260-320
controllerManagerConfigMapStep(acc, server, createOnlyMode, fault) ==
  LET desired == SetControllerReference(SpireServer,
                   generateControllerManagerConfigMap(
                     generateSpireControllerManagerConfigYaml(server.spec)))
      existing == acc.store[ControllerManagerConfigMap]
  IN  createOrUpdate(acc, ControllerManagerConfigMap, desired,
        existing.exists /\ (existing.edited \/ existing.data # desired.data
                              \/ existing.labels # desired.labels),
        createOnlyMode, fault, SpireControllerManagerConfigMapGeneration,
        "SpireControllerManagerConfigMapGenerationFailed",
        "SpireControllerManagerConfigMapCreated", FALSE)

\* controller.go 324-358: Create on every reconcile, AlreadyExists ignored
bundleConfigMapStep(acc, server, fault) ==
  LET desired == SetControllerReference(SpireServer, generateSpireBundleConfigMap(server.spec))
      a == storeCreate(acc, BundleConfigMap, desired, fault)
  IN  IF acc.done THEN acc
      ELSE IF LastErr(a) \notin {"", "AlreadyExists"}
      THEN Return(SetStatus(a, SpireBundleConfigMapGeneration, "False",
                            "SpireBundleConfigMapGenerationFailed"), TRUE)
      ELSE SetStatus(a, SpireBundleConfigMapGeneration, "True", "SpireBundleConfigMapCreated")

\* controller.go 252-258, 322, 360-407
statefulSetStep(acc, server, createOnlyMode, fault, order) ==
  LET spireServerConfigMapHash ==
        generateConfigHash(marshalToJSON(generateServerConfMap(server.spec), order))
      spireControllerManagerConfigMapHash ==
        generateConfigHashFromString(generateSpireControllerManagerConfigYaml(server.spec))
      sts == SetControllerReference(SpireServer,
               GenerateSpireServerStatefulSet(server.spec, spireServerConfigMapHash,
                                              spireControllerManagerConfigMapHash))
      existingSTS == acc.store[StatefulSet]
  IN  createOrUpdate(acc, StatefulSet, sts,
        existingSTS.exists /\ needsUpdate(existingSTS, sts),
        createOnlyMode, fault, SpireServerStatefulSetGeneration,
        "SpireServerStatefulSetGenerationFailed", "SpireServerStatefulSetCreated", FALSE)

\* federation_service.go 89-111
deleteFederationServiceIfExists(acc, fault) ==
  IF Failing(fault, federationServiceName, "Get") THEN Return(acc, TRUE)
  ELSE IF ~acc.store[federationServiceName].exists THEN acc
  ELSE LET a == storeDelete(acc, federationServiceName, fault)
       IN  IF LastErr(a) # "" THEN Return(a, TRUE) ELSE a

\* federation_service.go 23-86
ensureFederationService(acc, server, createOnlyMode, fault) ==
  LET federationSvc == SetControllerReference(SpireServer,
                         generateFederationService(server.spec))
      existingService == acc.store[federationServiceName]
      updated == [existingService EXCEPT !.data = federationSvc.data,
                                         !.labels = federationSvc.labels,
                                         !.edited = FALSE]
  IN  IF ~server.spec.federation.set THEN deleteFederationServiceIfExists(acc, fault)
      ELSE IF Failing(fault, federationServiceName, "Get") THEN Return(acc, TRUE)
      ELSE IF ~existingService.exists
      THEN LET a == storeCreate(acc, federationServiceName, federationSvc, fault)
           IN  IF LastErr(a) # "" THEN Return(a, TRUE) ELSE a
      ELSE IF createOnlyMode THEN acc
      ELSE LET a == storeUpdate(concurrentWrite(acc, federationServiceName, fault),
                                federationServiceName, updated, fault)
           IN  IF LastErr(a) # "" THEN Return(a, TRUE) ELSE a

\* controller.go 409-425
federationServiceStep(acc, server, createOnlyMode, fault) ==
  LET a == ensureFederationService(acc, server, createOnlyMode, fault)
  IN  IF acc.done THEN acc
      ELSE IF a.done
      THEN SetStatus(a, FederationServiceReady, "False", "FederationServiceFailed")
      ELSE IF server.spec.federation.set
      THEN SetStatus(a, FederationServiceReady, "True", "FederationServiceCreated")
      ELSE a

\* federation_route.go 220-309
managedFederationRoute(acc, server, fault) ==
  LET route == generateFederationRoute(server.spec)
      existingRoute == acc.store[federationRouteName]
      failed(a, reason) == Return(SetStatus(a, FederationRouteReady, "False", reason), TRUE)
  IN  IF acc.done \/ ~server.spec.federation.set THEN acc
      ELSE IF ~StringToBool(server.spec.federation.managedRoute)
      THEN SetStatus(acc, FederationRouteReady, "False", "FederationRouteDisabled")
      ELSE IF Failing(fault, federationRouteName, "Get")
      THEN failed(acc, "FederationRouteRetrievalFailed")
      ELSE IF ~existingRoute.exists
      THEN LET a == storeCreate(acc, federationRouteName, route, fault)
           IN  IF LastErr(a) # "" THEN failed(a, "FederationRouteCreationFailed")
               ELSE SetStatus(a, FederationRouteReady, "True", "FederationRouteCreated")
      ELSE IF checkFederationRouteConflict(existingRoute, route)
      THEN LET a == storeUpdate(concurrentWrite(acc, federationRouteName, fault),
                                federationRouteName,
                                withResourceVersion(route, existingRoute), fault)
           IN  IF LastErr(a) # "" THEN failed(a, "FederationRouteUpdateFailed")
               ELSE SetStatus(a, FederationRouteReady, "True", "FederationRouteUpdated")
      ELSE IF server.conditions[FederationRouteReady].status # "True"
      THEN SetStatus(acc, FederationRouteReady, "True", "FederationRouteReady")
      ELSE acc

\* service.go 205-247: the asset with labels and selector, the federation
\* port and the service CA annotation when federation is configured
getSpireServerService(config) ==
  Object(SpireServerLabels(config.labels),
         [ports |-> {[name |-> "asset", port |-> 0, targetPort |-> 0, protocol |-> "TCP"]}
                      \cup (IF config.federation.set
                            THEN {[name |-> "federation", port |-> FederationPort,
                                   targetPort |-> FederationPort, protocol |-> "TCP"]}
                            ELSE {}),
          selector |-> [name |-> "spire-server",
                        instance |-> "cluster-zero-trust-workload-identity-manager"],
          annotations |-> IF config.federation.set
                          THEN {"spire-server-serving-cert"} ELSE {}])

\* service.go 250-259
getSpireControllerManagerWebhookService(customLabels) ==
  Object(SpireControllerManagerLabels(customLabels),
         [ports |-> {[name |-> "asset", port |-> 0, targetPort |-> 0, protocol |-> "TCP"]},
          selector |-> [name |-> "spire-controller-manager",
                        instance |-> "cluster-zero-trust-workload-identity-manager"],
          annotations |-> {}])

\* an update that takes only the resource version from the existing Service
preserveResourceVersionOnly(desired, existing) == [desired EXCEPT !.rv = existing.rv]

\* service.go 84-94: the fields Kubernetes manages are taken from the
\* existing Service before the comparison
preserveManagedFields(desired, existing) ==
  [desired EXCEPT
     !.rv = existing.rv,
     !.assigned = [existing.assigned EXCEPT
                     !.healthCheckNodePort =
                       IF existing.assigned.healthCheckNodePort # 0
                       THEN existing.assigned.healthCheckNodePort
                       ELSE desired.assigned.healthCheckNodePort]]

\* reconcileSpireServerService and reconcileSpireControllerManagerService
\* (service.go 40-120, 123-203)
reconcileOneService(acc, kind, generated, createOnlyMode, fault) ==
  LET existing == acc.store[kind]
      desired == preserveManagedFields(generated, existing)
      failed(a) == Return(AddCondition(a, ServiceAvailable, "Failed", <<>>, "False"), TRUE)
  IN  IF acc.done THEN acc
      ELSE IF Failing(fault, kind, "Get") THEN failed(acc)
      ELSE IF ~existing.exists
      THEN LET a == storeCreate(acc, kind, generated, fault)
           IN  IF LastErr(a) # "" THEN failed(a) ELSE a
      ELSE IF createOnlyMode THEN acc
      ELSE IF ~(existing.edited \/ existing.data # desired.data
                  \/ existing.labels # desired.labels)
      THEN acc
      ELSE LET a == storeUpdate(concurrentWrite(acc, kind, fault), kind, desired, fault)
           IN  IF LastErr(a) # "" THEN failed(a) ELSE a

\* service.go 20-37
reconcileService(acc, server, createOnlyMode, fault) ==
  LET a1 == reconcileOneService(acc, ServerService,
              SetControllerReference(SpireServer, getSpireServerService(server.spec)),
              createOnlyMode, fault)
      a2 == reconcileOneService(a1, ControllerManagerService,
              SetControllerReference(SpireServer,
                getSpireControllerManagerWebhookService(server.spec.labels)),
              createOnlyMode, fault)
  IN  IF a2.done THEN a2
      ELSE AddCondition(a2, ServiceAvailable, "Ready", <<>>, "True")

\* the body of Reconcile between the load of the CR and the deferred
\* status update (controller.go 120-433); server.conf is rendered twice,
\* for the ConfigMap and for the hash, each with its own map order
serverReconcileBody(store, server, createOnlyMode, fault, orders) ==
  LET a1 == serverCreateOnlyStep(NewAcc(store), server, createOnlyMode)
      a2 == jwtIssuerValidationStep(a1, server)
      a3 == handleTTLValidation(a2, server)
      a4 == federationValidationStep(a3, server)
      a5 == serverConfigMapStep(a4, server, createOnlyMode, fault, orders[1])
      a6 == controllerManagerConfigMapStep(a5, server, createOnlyMode, fault)
      a7 == bundleConfigMapStep(a6, server, fault)
      a8 == statefulSetStep(a7, server, createOnlyMode, fault, orders[2])
      a9 == federationServiceStep(a8, server, createOnlyMode, fault)
  IN  managedFederationRoute(a9, server, fault)

(***************************************************************************)
(* Inputs: the SpireServer specs a user may apply.                         *)
(***************************************************************************)
TD1 == "cluster1.example.com"
TD2 == "cluster2.example.com"
TD3 == "cluster3.example.com"
GoodIssuer == Url("https", "oidc.cluster1.example.com", "", "", "")
SpiffeEndpoint == BundleEndpointConfig(FederationPort, HttpsSpiffeProfile, 0, NoHttpsWeb)
Peer(td) ==
  FederatesWithConfig(td, Str("https://", td), HttpsSpiffeProfile,
                      Str("spiffe://", td))

PlainSpec == SpireServerSpec(TD1, GoodIssuer, 3, 1, 1, "", NoFederation)
RelabelledSpec == SpireServerSpec(TD1, GoodIssuer, 3, 1, 1, "team-a", NoFederation)
WarnTTLSpec == SpireServerSpec(TD1, GoodIssuer, 2, 2, 1, "", NoFederation)
BadIssuerSpec ==
  SpireServerSpec(TD1, Url("https", "oidc.cluster1.example.com", "/path", "", ""),
                  3, 1, 1, "", NoFederation)
BadTTLSpec == SpireServerSpec(TD1, GoodIssuer, 1, 2, 1, "", NoFederation)
ZeroTTLSpec == SpireServerSpec(TD1, GoodIssuer, 3, 1, 0, "", NoFederation)
SpiffeFederationSpec ==
  SpireServerSpec(TD1, GoodIssuer, 3, 1, 1, "",
                  FederationConfig(SpiffeEndpoint, <<Peer(TD2)>>, "true"))
MovedFederationSpec ==
  SpireServerSpec(TD2, GoodIssuer, 3, 1, 1, "",
                  FederationConfig(SpiffeEndpoint, <<Peer(TD1)>>, "true"))
UnroutedFederationSpec ==
  SpireServerSpec(TD1, GoodIssuer, 3, 1, 1, "",
                  FederationConfig(SpiffeEndpoint, <<Peer(TD2)>>, "false"))
SelfFederationSpec ==
  SpireServerSpec(TD1, GoodIssuer, 3, 1, 1, "",
                  FederationConfig(SpiffeEndpoint, <<Peer(TD2), Peer(TD1)>>, "true"))
ServingCertSpec ==
  SpireServerSpec(TD1, GoodIssuer, 3, 1, 1, "",
    FederationConfig(
      BundleEndpointConfig(FederationPort, HttpsWebProfile, 300,
        HttpsWebConfig(NoAcme, ServingCertConfig("federation-tls", 60, "federation-tls"))),
      <<Peer(TD2)>>, "true"))

\* a serving cert the router reads from a secret of its own
RouterCertSpec ==
  SpireServerSpec(TD1, GoodIssuer, 3, 1, 1, "",
    FederationConfig(
      BundleEndpointConfig(FederationPort, HttpsWebProfile, 300,
        HttpsWebConfig(NoAcme, ServingCertConfig("federation-tls", 60, "router-tls"))),
      <<Peer(TD2)>>, "true"))

\* a serving cert without an external certificate for the router
ServerCertOnlySpec ==
  SpireServerSpec(TD1, GoodIssuer, 3, 1, 1, "",
    FederationConfig(
      BundleEndpointConfig(FederationPort, HttpsWebProfile, 300,
        HttpsWebConfig(NoAcme, ServingCertConfig("federation-tls", 60, ""))),
      <<Peer(TD2)>>, "true"))

AcmeSpec ==
  SpireServerSpec(TD1, GoodIssuer, 3, 1, 1, "",
    FederationConfig(
      BundleEndpointConfig(FederationPort, HttpsWebProfile, 300,
        HttpsWebConfig(AcmeConfig(Str("https://", "acme.example.org"), "federation.td1",
                                  "admin@td1", "true"),
                       NoServingCert)),
      <<Peer(TD2)>>, "true"))

TwoPeersSpec ==
  SpireServerSpec(TD1, GoodIssuer, 3, 1, 1, "",
                  FederationConfig(SpiffeEndpoint, <<Peer(TD3), Peer(TD2)>>, "false"))

ServerSpecs ==
  {PlainSpec, RelabelledSpec, WarnTTLSpec, BadIssuerSpec, BadTTLSpec, ZeroTTLSpec,
   SpiffeFederationSpec, MovedFederationSpec, UnroutedFederationSpec,
   SelfFederationSpec, ServingCertSpec, RouterCertSpec, ServerCertOnlySpec, AcmeSpec,
   TwoPeersSpec}

(***************************************************************************)
(* The agent, CSI driver and OIDC discovery provider reconcilers.          *)
(***************************************************************************)
ZTWIM == "ZeroTrustWorkloadIdentityManager"
SpireAgent == "SpireAgent"
SpiffeCSIDriver == "SpiffeCSIDriver"
SpireOIDCDiscoveryProvider == "SpireOIDCDiscoveryProvider"
Operands == <<SpireServer, SpireAgent, SpiffeCSIDriver, SpireOIDCDiscoveryProvider>>
OperandKinds == {Operands[i] : i \in 1..Len(Operands)}
DaemonOperands == OperandKinds \ {SpireServer}

\* the children of each operand in the order its Reconcile handles them
ChildSteps(k) ==
  CASE k = SpiffeCSIDriver ->
         <<"ServiceAccount/spire-spiffe-csi-driver", "CSIDriver/csi.spiffe.io",
           "SCC/spire-spiffe-csi-driver", "DaemonSet/spire-spiffe-csi-driver">>
    [] k = SpireAgent ->
         <<"ServiceAccount/spire-agent", "Service/spire-agent", "RBAC/spire-agent",
           "SCC/spire-agent", "ConfigMap/spire-agent", "DaemonSet/spire-agent">>
    [] k = SpireOIDCDiscoveryProvider ->
         <<"ServiceAccount/spire-oidc", "Service/spire-oidc", "ClusterSPIFFEID/oidc",
           "ConfigMap/spire-oidc", "Deployment/spire-oidc", "RBAC/oidc-external-cert",
           "Route/spire-oidc">>
    [] OTHER -> <<>>

Workload(k) ==
  CASE k = SpiffeCSIDriver -> "DaemonSet/spire-spiffe-csi-driver"
    [] k = SpireAgent -> "DaemonSet/spire-agent"
    [] k = SpireOIDCDiscoveryProvider -> "Deployment/spire-oidc"
    [] OTHER -> StatefulSet

DaemonChildren ==
  UNION {{ChildSteps(k)[i] : i \in 1..Len(ChildSteps(k))} : k \in DaemonOperands}
Children ==
  ServerChildren \cup ServiceChildren \cup DaemonChildren \cup {ServerExternalCertRBAC}

OperandSpec(labels, commonConfig, issuer) ==
  [labels |-> labels, commonConfig |-> commonConfig, jwtIssuer |-> issuer]

\* the process environment read by utils.ValidateProxyConfiguration
NoProxy == [proxy |-> FALSE, trustedCABundle |-> FALSE]

\* utils.ValidateProxyConfiguration: a proxy needs a trusted CA bundle
ValidateProxyConfiguration(env) == ~env.proxy \/ env.trustedCABundle

\* utils.ValidateAndUpdateStatus: affinity, tolerations, node selector,
\* resources and labels are well formed
ValidateCommonConfig(spec) == spec.commonConfig = "ok"

\* validateConfiguration of each reconciler: the reason of the first
\* failing validator, "" when all pass
validateConfiguration(k, spec, env) ==
  CASE k = SpiffeCSIDriver ->
         IF ~ValidateCommonConfig(spec) THEN "InvalidCommonConfig" ELSE ""
    [] k = SpireAgent ->
         IF ~ValidateProxyConfiguration(env) THEN "MissingCABundle"
         ELSE IF ~ValidateCommonConfig(spec) THEN "InvalidCommonConfig" ELSE ""
    [] k = SpireOIDCDiscoveryProvider ->
         IF ~ValidateCommonConfig(spec) THEN "InvalidCommonConfig"
         ELSE IF ~ValidateProxyConfiguration(env) THEN "MissingCABundle"
         ELSE IF ~IsValidURL(spec.jwtIssuer) THEN "InvalidJWTIssuerURL" ELSE ""

\* utils.NeedsOwnerReferenceUpdate
NeedsOwnerReferenceUpdate(cr) == cr.owner # ZTWIM

\* the desired child of an operand
generateChild(k, kind, spec) ==
  SetControllerReference(k,
    Object([name |-> kind, component |-> k,
            managedBy |-> "zero-trust-workload-identity-manager",
            custom |-> spec.labels],
           [kind |-> kind]))

\* one reconcile<Child> step: diff-and-apply with a per-step condition
childStep(acc, k, kind, spec, createOnlyMode, fault) ==
  LET desired == generateChild(k, kind, spec)
      existing == acc.store[kind]
  IN  createOrUpdate(acc, kind, desired,
        existing.exists /\ (existing.edited \/ existing.data # desired.data
                              \/ existing.labels # desired.labels),
        createOnlyMode, fault, ChildrenAvailable, "Failed", "Ready", TRUE)

RECURSIVE childSteps(_, _, _, _, _, _)
childSteps(acc, k, i, spec, createOnlyMode, fault) ==
  IF i > Len(ChildSteps(k)) THEN acc
  ELSE childSteps(childStep(acc, k, ChildSteps(k)[i], spec, createOnlyMode, fault),
                  k, i + 1, spec, createOnlyMode, fault)

\* handleCreateOnlyMode
handleCreateOnlyMode(acc, cr, createOnlyMode) ==
  IF createOnlyMode
  THEN AddCondition(acc, CreateOnlyModeStatusType, "CreateOnlyModeEnabled", <<>>, "True")
  ELSE IF cr.conditions[CreateOnlyModeStatusType].status = "True"
  THEN AddCondition(acc, CreateOnlyModeStatusType, "CreateOnlyModeDisabled", <<>>, "False")
  ELSE acc

\* the workload health check after the workload step
workloadHealthStep(acc, k, healthySet) ==
  IF acc.done THEN acc
  ELSE IF Workload(k) \in healthySet
  THEN AddCondition(acc, WorkloadAvailable, "Ready", <<>>, "True")
  ELSE AddCondition(acc, WorkloadAvailable, "InProgress",
                    <<"Waiting", "for", "workload", "rollout">>, "False")

\* status.Manager: Ready is derived from the conditions added during the
\* reconcile unless the reconciler added Ready itself
deriveReady(status) ==
  LET failing == {t \in ConditionTypes \ {Ready, CreateOnlyModeStatusType} :
                    status[t].set /\ status[t].status = "False"}
  IN  IF status[Ready].set THEN status
      ELSE IF failing = {}
      THEN [status EXCEPT ![Ready] = Status("True", "Ready", <<"All", "components", "are", "ready">>)]
      ELSE IF failing = {WorkloadAvailable}
      THEN [status EXCEPT ![Ready] = Status("False", "InProgress", status[WorkloadAvailable].message)]
      ELSE [status EXCEPT ![Ready] = Status("False", "Failed", <<"Reconciliation", "failed">>)]

\* the body of an operand Reconcile after the load of its CR
operandReconcileBody(store, k, cr, top, env, healthySet, createOnlyMode, fault) ==
  LET a0 == NewAcc(store)
      owned == storeUpdateCR(a0, k, fault)
      a1 == IF NeedsOwnerReferenceUpdate(cr) THEN owned ELSE a0
      a2 == handleCreateOnlyMode(a1, cr, createOnlyMode)
      reason == validateConfiguration(k, cr.spec, env)
  IN  IF ~top.exists
      THEN Return(AddCondition(a0, Ready, "Failed",
                    <<"Failed", "to", "retrieve", "ZeroTrustWorkloadIdentityManager">>,
                    "False"), FALSE)
      ELSE IF NeedsOwnerReferenceUpdate(cr) /\ LastErr(owned) # ""
      THEN Return(AddCondition(owned, Ready, "Failed",
                    <<"Failed", "to", "update", "owner", "reference">>, "False"), TRUE)
      ELSE IF reason # ""
      THEN Invalid(a2, ConfigurationValid, reason, reason)
      ELSE workloadHealthStep(childSteps(a2, k, 1, cr.spec, createOnlyMode, fault),
                              k, healthySet)

(***************************************************************************)
(* The top-level aggregator.  Messages are sequences of words.             *)
(***************************************************************************)
OperandMessageCRNotFound == <<"CR", "not", "found">>
OperandMessageWaitingInitialRecon == <<"Waiting", "for", "initial", "reconciliation">>
OperandMessageReconciling == <<"Reconciling">>

operandProgressing == "progressing"
operandFailed == "failed"
operandReady == "ready"

\* strings.ToLower, word by word
ToLower(w) ==
  CASE w = "CR" -> "cr"
    [] w = "Not" -> "not"
    [] w = "Found" -> "found"
    [] w = "Waiting" -> "waiting"
    [] w = "Reconciling" -> "reconciling"
    [] w = "PROGRESSING" -> "progressing"
    [] w = "Failed" -> "failed"
    [] w = "Rollout" -> "rollout"
    [] OTHER -> w

\* contains: case-insensitive substring match
contains(s, substr) ==
  \E i \in 0..(Len(s) - Len(substr)) :
    \A j \in 1..Len(substr) : ToLower(s[i + j]) = ToLower(substr[j])

OperandStatus(kind, ready, message, conditions, listed) ==
  [kind |-> kind, name |-> "cluster", ready |-> ready, message |-> message,
   conditions |-> conditions, listed |-> listed]

\* extractKeyConditions: the types kept in the operand record
extractKeyConditions(conditions, isReady) ==
  {t \in ConditionTypes :
     \/ t = CreateOnlyModeStatusType /\ conditions[t].status = "True"
     \/ ~isReady /\ t = Ready /\ conditions[t].status # ""
     \/ ~isReady /\ t \notin {Ready, CreateOnlyModeStatusType}
          /\ conditions[t].status = "False"}

\* an operand record that takes every reconciled operand for ready
getOperandStatusAssumedReady(cr, kind, getFails) ==
  IF getFails \/ ~cr.exists
  THEN OperandStatus(kind, "false", OperandMessageCRNotFound, NoConditions, {})
  ELSE OperandStatus(kind, "true", <<"Ready">>, cr.conditions,
                     extractKeyConditions(cr.conditions, TRUE))

getOperandStatus(cr, kind, getFails) ==
  LET conditions == cr.conditions
      readyCondition == conditions[Ready]
      isReady == readyCondition.status = "True"
  IN  IF getFails
      THEN OperandStatus(kind, "false", <<"Failed", "to", "get", "CR:", "timeout">>,
                         NoConditions, {})
      ELSE IF ~cr.exists
      THEN OperandStatus(kind, "false", OperandMessageCRNotFound, NoConditions, {})
      ELSE IF \A t \in ConditionTypes : conditions[t].status = ""
      THEN OperandStatus(kind, "false", OperandMessageWaitingInitialRecon, NoConditions, {})
      ELSE OperandStatus(kind,
             IF isReady THEN "true" ELSE "false",
             IF isReady THEN <<"Ready">>
             ELSE IF readyCondition.status # "" THEN readyCondition.message
             ELSE OperandMessageReconciling,
             conditions, extractKeyConditions(conditions, isReady))

\* apimeta.FindStatusCondition on the pruned list of an operand record
FindReadyCondition(operand) ==
  IF Ready \in operand.listed THEN operand.conditions[Ready] ELSE NoCondition

\* a classification that looks at the message before the reason
classifyByMessageFirst(operand, readyCondition) ==
  IF StringToBool(operand.ready) THEN operandReady
  ELSE IF \/ operand.message \in {OperandMessageCRNotFound,
                                   OperandMessageWaitingInitialRecon,
                                   OperandMessageReconciling}
          \/ contains(operand.message, <<"not", "found">>)
          \/ contains(operand.message, <<"initial">>)
          \/ contains(operand.message, <<"reconciling">>)
          \/ contains(operand.message, <<"progressing">>)
  THEN operandProgressing
  ELSE IF readyCondition.reason \in {"InProgress", "NotFound", "InitialReconcile",
                                     "Reconciling"}
  THEN operandProgressing
  ELSE IF readyCondition.reason = "Ready" THEN operandReady
  ELSE operandFailed

classifyOperandState(operand, readyCondition) ==
  IF StringToBool(operand.ready) THEN operandReady
  ELSE IF readyCondition.status # ""
            /\ readyCondition.reason \in {"InProgress", "NotFound", "InitialReconcile",
                                          "Reconciling"}
  THEN operandProgressing
  ELSE IF readyCondition.status # "" /\ readyCondition.reason \in {"Failed", "Unhealthy"}
  THEN operandFailed
  ELSE IF readyCondition.status # "" /\ readyCondition.reason = "Ready"
  THEN operandReady
  ELSE IF operand.message \in {OperandMessageCRNotFound, OperandMessageWaitingInitialRecon,
                               OperandMessageReconciling}
  THEN operandProgressing
  ELSE IF \/ contains(operand.message, <<"not", "found">>)
          \/ contains(operand.message, <<"initial">>)
          \/ contains(operand.message, <<"reconciling">>)
          \/ contains(operand.message, <<"progressing">>)
  THEN operandProgressing
  ELSE operandFailed

classify(operand) == classifyOperandState(operand, FindReadyCondition(operand))

\* aggregateOperandStatus with processOperandStatus folded over the four
aggregateOperandStatus(crs, failing) ==
  LET statuses == [i \in 1..Len(Operands) |->
                     getOperandStatus(crs[Operands[i]], Operands[i], Operands[i] = failing)]
      notReady == {i \in 1..Len(Operands) : ~StringToBool(statuses[i].ready)}
  IN  [operandStatuses |-> statuses,
       allReady |-> notReady = {},
       notCreatedCount |-> Cardinality({i \in notReady :
                                          classify(statuses[i]) = operandProgressing}),
       failedCount |-> Cardinality({i \in notReady :
                                      classify(statuses[i]) # operandProgressing}),
       anyOperandExists |-> \E i \in 1..Len(Operands) :
                              statuses[i].message # OperandMessageCRNotFound]

\* a pending entry that does not tell a missing CR from a reconciling one
pendingOperandReconciling(operand) == <<operand.kind, "(reconciling)">>

pendingOperand(operand) ==
  IF operand.message = OperandMessageCRNotFound
  THEN <<operand.kind, "(not created)">> ELSE <<operand.kind, "(reconciling)">>

\* an unhealthy entry without the kind
unhealthyOperandNameOnly(operand) == <<operand.name>>

unhealthyOperand(operand) == <<operand.kind, "/", operand.name>>

\* Reconcile 283-297: the operands classified progressing, in order
RECURSIVE pendingOperands(_, _)
pendingOperands(statuses, i) ==
  IF i > Len(statuses) THEN <<>>
  ELSE (IF classify(statuses[i]) = operandProgressing
        THEN <<pendingOperand(statuses[i])>> ELSE <<>>)
         \o pendingOperands(statuses, i + 1)

\* Reconcile 308-317: the operands classified failed, in order
RECURSIVE unhealthyOperands(_, _)
unhealthyOperands(statuses, i) ==
  IF i > Len(statuses) THEN <<>>
  ELSE (IF classify(statuses[i]) = operandFailed
        THEN <<unhealthyOperand(statuses[i])>> ELSE <<>>)
         \o unhealthyOperands(statuses, i + 1)

\* Reconcile 271-327: the OperandsAvailable and Ready conditions
operandsAvailability(acc, result) ==
  LET pending == <<<<"Waiting for operands:">>>>
                   \o pendingOperands(result.operandStatuses, 1)
      unhealthy == <<<<"Some operands not ready:">>>>
                     \o unhealthyOperands(result.operandStatuses, 1)
  IN  IF result.allReady
      THEN AddCondition(
             AddCondition(acc, OperandsAvailable, "Ready",
                          <<<<"All operand CRs are ready">>>>, "True"),
             Ready, "Ready", <<<<"All components are ready">>>>, "True")
      ELSE IF result.notCreatedCount > 0 /\ result.failedCount = 0
      THEN AddCondition(AddCondition(acc, OperandsAvailable, "InProgress", pending, "False"),
                        Ready, "InProgress", pending, "False")
      ELSE AddCondition(AddCondition(acc, OperandsAvailable, "Failed", unhealthy, "False"),
                        Ready, "Failed", unhealthy, "False")

\* setCreateOnlyModeCondition
setCreateOnlyModeCondition(acc, existingConditions, createOnlyMode) ==
  IF createOnlyMode
  THEN AddCondition(acc, CreateOnlyModeStatusType, "CreateOnlyModeEnabled", <<>>, "True")
  ELSE IF existingConditions[CreateOnlyModeStatusType].status = "True"
  THEN AddCondition(acc, CreateOnlyModeStatusType, "CreateOnlyModeDisabled", <<>>, "False")
  ELSE acc

\* an Upgradeable condition that looks at create-only mode alone
upgradeableWithoutOperands(anyCreateOnlyModeEnabled, operandStatuses) ==
  IF anyCreateOnlyModeEnabled
  THEN Condition("False", "OperandsNotReady",
                 <<"Not", "safe", "to", "upgrade", "-", "create-only", "mode">>)
  ELSE Condition("True", "Ready", <<"Operator", "is", "Upgradeable">>)

\* updateOperatorCondition 590-627: the Upgradeable condition
upgradeableCondition(anyCreateOnlyModeEnabled, operandStatuses) ==
  LET notReadyOperands ==
        {i \in 1..Len(operandStatuses) :
           /\ ~StringToBool(operandStatuses[i].ready)
           /\ operandStatuses[i].message # OperandMessageCRNotFound}
  IN  IF anyCreateOnlyModeEnabled
      THEN Condition("False", "OperandsNotReady",
                     <<"Not", "safe", "to", "upgrade", "-", "create-only", "mode">>)
      ELSE IF notReadyOperands # {}
      THEN Condition("False", "OperandsNotReady",
                     <<"Not", "safe", "to", "upgrade", "-", "operands", "not", "ready">>)
      ELSE Condition("True", "Ready", <<"Operator", "is", "Upgradeable">>)

(***************************************************************************)
(* State.                                                                  *)
(***************************************************************************)
VARIABLES
  createOnlyMode,     \* CREATE_ONLY_MODE of the operator process
  proxyEnv,           \* HTTP(S)_PROXY and TRUSTED_CA_BUNDLE_CONFIGMAP
  ztwim,              \* the top-level CR "cluster"
  operands,           \* the four operand CRs
  children,           \* every child object, by kind/name
  healthy,            \* the workloads whose rollout has completed
  operatorCondition,  \* the OLM OperatorCondition resource
  settled,            \* reconcilers that succeeded with nothing changed since
  envSteps,           \* external changes so far
  chain,              \* reconciles that changed an object since the last external change
  last                \* what the last reconcile did

vars ==
  <<createOnlyMode, proxyEnv, ztwim, operands, children, healthy,
    operatorCondition, settled, envSteps, chain, last>>

Reconcilers == OperandKinds \cup {ZTWIM}

\* utils.IsInCreateOnlyMode: the create-only flag the process was started
\* with, whatever object is being reconciled
IsInCreateOnlyMode == createOnlyMode

NoCR == [exists |-> FALSE, owner |-> NoOwner, spec |-> <<>>, conditions |-> NoConditions]
NewCR(spec) == [exists |-> TRUE, owner |-> NoOwner, spec |-> spec, conditions |-> NoConditions]
NoTopLevel == [exists |-> FALSE, conditions |-> NoConditions, operands |-> <<>>]
NewTopLevel == [exists |-> TRUE, conditions |-> NoConditions, operands |-> <<>>]
NoOperatorCondition == [exists |-> FALSE, upgradeable |-> NoCondition]

NoReconcile ==
  [rec |-> "", calls |-> <<>>, requeue |-> FALSE, err |-> FALSE, invalid |-> "",
   repeat |-> FALSE, createOnly |-> FALSE, before |-> {}, found |-> FALSE,
   was |-> [t \in ConditionTypes \cup {Upgradeable} |-> NoCondition], stamped |-> {},
   read |-> [c \in Children |-> 0], hashes |-> <<>>,
   fault |-> NoFault, status |-> [t \in ConditionTypes |-> NoStatus]]

\* the record of a reconcile: its store calls, its result, whether it
\* failed a validation, whether it repeats a settled reconcile, the
\* children that existed when it started and the resource versions it
\* and the hash annotations of the StatefulSet it could read
Reconciled(rec, acc, calls, found) ==
  [rec |-> rec, calls |-> calls, requeue |-> FALSE, err |-> acc.err,
   invalid |-> acc.invalid, repeat |-> settled[rec], createOnly |-> IsInCreateOnlyMode,
   before |-> {c \in Children : children[c].exists}, found |-> found,
   was |-> NoReconcile.was, stamped |-> {},
   read |-> [c \in Children |-> children[c].rv],
   hashes |-> IF children[StatefulSet].exists
              THEN <<children[StatefulSet].data.serverConfigHash,
                     children[StatefulSet].data.controllerManagerConfigHash>>
              ELSE <<>>,
   fault |-> NoFault, status |-> acc.status]

\* the conditions the reconciled object carried before, with the
\* Upgradeable condition of the OperatorCondition beside them
Was(conditions) ==
  [t \in ConditionTypes \cup {Upgradeable} |->
     IF t = Upgradeable THEN operatorCondition.upgradeable ELSE conditions[t]]

\* a reconciler stays settled while nobody changes the cluster
\* the chain is counted only in the behaviours that start counting it
NotCounted == 0 - 1

Settle(rec, ok) ==
  /\ settled' = [r \in Reconcilers |->
                   IF r = rec THEN ok
                   ELSE settled[r] /\ UNCHANGED <<ztwim, operands, children, operatorCondition>>]
  /\ chain' = IF chain = NotCounted \/ chain > MaxOwnChain
                  \/ UNCHANGED <<ztwim, operands, children, operatorCondition>>
               THEN chain ELSE chain + 1
Unsettle ==
  /\ settled' = [r \in Reconcilers |-> FALSE]
  /\ chain' = IF chain = NotCounted THEN chain ELSE 0

(***************************************************************************)
(* Reconcile actions.                                                      *)
(***************************************************************************)
StatusUpdate(kind) == Call("StatusUpdate", kind, NoObject, "")

\* StatusUpdateWithRetry and status.Manager.ApplyStatus: the status is
\* written when it differs from the stored one, and a write that meets a
\* version conflict is repeated on the object as it is now
statusUpdateWithRetry(kind, stored, applied, conflict) ==
  [status |-> applied,
   calls |-> IF applied = stored THEN <<>>
             ELSE IF conflict
             THEN <<Call("StatusUpdate", kind, NoObject, "Conflict"), StatusUpdate(kind)>>
             ELSE <<StatusUpdate(kind)>>]

\* a concurrent writer of the reconciled object is an external change
Conflicts == {FALSE} \cup {c \in {TRUE} : envSteps < MaxEnvSteps}

\* transient store failures a reconcile may meet
Faults ==
  {NoFault,
   [kind |-> StatefulSet, op |-> "Get"],
   [kind |-> ControllerManagerConfigMap, op |-> "Get"],
   [kind |-> ServerConfigMap, op |-> "Update"],
   [kind |-> federationRouteName, op |-> "Create"],
   [kind |-> "DaemonSet/spire-agent", op |-> "Create"],
   [kind |-> federationServiceName, op |-> "ConcurrentWrite"],
   [kind |-> StatefulSet, op |-> "ConcurrentWrite"],
   [kind |-> ControllerManagerService, op |-> "Get"]}

\* the failures a reconcile of the operand may meet now: each counts as
\* an external change, and it hits a child of that operand
FaultsOf(kinds) ==
  {f \in Faults : f = NoFault \/ (envSteps < MaxEnvSteps /\ f.kind \in kinds)}

FaultBudget(fault) ==
  /\ fault # NoFault => envSteps < MaxEnvSteps
  /\ envSteps' = IF fault = NoFault THEN envSteps ELSE envSteps + 1

\* a store failure and a conflicting writer met by one reconcile
DisturbanceBudget(fault, conflict) ==
  /\ (fault # NoFault \/ conflict) => envSteps < MaxEnvSteps
  /\ envSteps' = IF fault = NoFault /\ ~conflict THEN envSteps ELSE envSteps + 1

\* the map orders the two renderings of server.conf in one reconcile meet
RenderOrders(server) ==
  IF server.exists
  THEN LET orders == MapOrders(generateServerConfMap(server.spec).federation.federates_with)
       IN  orders \X orders
  ELSE {<<<<>>, <<>>>>}

\* a reconcile that writes the initial status before it looks for the CR
ReconcileAbsentAfterStatus(rec) ==
  /\ last' = Reconciled(rec, NewAcc(children), <<StatusUpdate(rec)>>, FALSE)
  /\ operands' = [operands EXCEPT ![rec].conditions[Ready] =
                                    Condition("False", "Reconciling", <<>>)]
  /\ UNCHANGED <<createOnlyMode, proxyEnv, ztwim, children, healthy,
                 operatorCondition, envSteps, settled, chain>>

\* a reconcile request for a CR that does not exist returns at once
ReconcileAbsent(rec) ==
  /\ last' = Reconciled(rec, NewAcc(children), <<>>, FALSE)
  /\ UNCHANGED <<createOnlyMode, proxyEnv, ztwim, operands, children, healthy,
                 operatorCondition, envSteps, settled, chain>>

\* SpireServerReconciler.Reconcile (controller.go 84-434)
ServerReconcile ==
  \E fault \in FaultsOf(ServerChildren) :
  \E orders \in RenderOrders(operands[SpireServer]) :
  \E conflict \in Conflicts :
  \E acc \in {IF operands[SpireServer].exists
               THEN serverReconcileBody(children, operands[SpireServer], IsInCreateOnlyMode,
                                        fault, orders)
               ELSE NewAcc(children)} :
    LET server == operands[SpireServer]
        applied == applyReconcileStatus(server.conditions, acc.status)
        write == statusUpdateWithRetry(SpireServer, server.conditions, applied, conflict)
        conditions == write.status
        calls == acc.calls \o write.calls
    IN  IF ~server.exists
        THEN fault = NoFault /\ ~conflict /\ ReconcileAbsent(SpireServer)
        ELSE /\ DisturbanceBudget(fault, conflict)
             /\ conflict => applied # server.conditions
             /\ children' = acc.store
             /\ operands' = [operands EXCEPT ![SpireServer].conditions = conditions]
             /\ last' = [Reconciled(SpireServer, acc, calls, TRUE) EXCEPT
                           !.was = Was(server.conditions), !.fault = fault,
                           !.stamped = transitioned(server.conditions, acc.status)]
             /\ UNCHANGED <<createOnlyMode, proxyEnv, ztwim, healthy, operatorCondition>>
             /\ Settle(SpireServer, ~acc.err)

\* Reconcile of the agent, CSI driver and OIDC discovery provider
\* (spiffe-csi-driver/controller.go 66-151, 287-382,
\* spire-oidc-discovery-provider/controller.go 73-176)
OperandReconcile(k) ==
  \E fault \in FaultsOf({ChildSteps(k)[i] : i \in 1..Len(ChildSteps(k))}) :
  \E conflict \in Conflicts :
  \E acc \in {IF operands[k].exists
               THEN operandReconcileBody(children, k, operands[k], ztwim, proxyEnv, healthy,
                                         IsInCreateOnlyMode, fault)
               ELSE NewAcc(children)} :
    LET cr == operands[k]
        applied == applyReconcileStatus(cr.conditions, deriveReady(acc.status))
        write == statusUpdateWithRetry(k, cr.conditions, applied, conflict)
        conditions == write.status
        owned == \E i \in 1..Len(acc.calls) :
                   acc.calls[i].kind = k /\ acc.calls[i].err = ""
        calls == acc.calls \o write.calls
    IN  IF ~cr.exists
        THEN fault = NoFault /\ ~conflict /\ ReconcileAbsent(k)
        ELSE /\ DisturbanceBudget(fault, conflict)
             /\ conflict => applied # cr.conditions
             /\ children' = acc.store
             /\ operands' = [operands EXCEPT
                               ![k].conditions = conditions,
                               ![k].owner = IF owned THEN ZTWIM ELSE @]
             /\ last' = [Reconciled(k, acc, calls, TRUE) EXCEPT
                           !.was = Was(cr.conditions), !.fault = fault,
                           !.stamped = transitioned(cr.conditions,
                                                    deriveReady(acc.status))]
             /\ UNCHANGED <<createOnlyMode, proxyEnv, ztwim, healthy, operatorCondition>>
             /\ Settle(k, ~acc.err)

\* reconcileService of the server reconciler (service.go 20-37), run for
\* the SpireServer CR
ServiceReconcile ==
  \E fault \in FaultsOf(ServiceChildren) :
  \E acc \in {IF operands[SpireServer].exists
               THEN reconcileService(NewAcc(children), operands[SpireServer],
                                     IsInCreateOnlyMode, fault)
               ELSE NewAcc(children)} :
    /\ operands[SpireServer].exists
    /\ FaultBudget(fault)
    /\ children' = acc.store
    /\ last' = [Reconciled(SpireServer, acc, acc.calls, TRUE) EXCEPT !.fault = fault]
    /\ Unsettle
    /\ UNCHANGED <<createOnlyMode, proxyEnv, ztwim, operands, healthy, operatorCondition>>

\* the operand CR whose Get fails with a transient error, "" for none
AggregatorFaults == {"", SpireAgent, SpireOIDCDiscoveryProvider}

\* ZeroTrustWorkloadIdentityManagerReconciler.Reconcile (controller.go 237-343)
AggregatorReconcile ==
  \E failing \in {f \in AggregatorFaults :
                   f = "" \/ (envSteps < MaxEnvSteps /\ ztwim.exists)} :
  \E conflict \in Conflicts :
  \E result \in {aggregateOperandStatus(operands, failing)} :
  \E a2 \in {setCreateOnlyModeCondition(operandsAvailability(NewAcc(children), result),
                                        ztwim.conditions, IsInCreateOnlyMode)} :
    LET statuses == IF ztwim.exists THEN result.operandStatuses ELSE <<>>
        conditions == applyReconcileStatus(ztwim.conditions, a2.status)
        top == [ztwim EXCEPT !.conditions = conditions, !.operands = statuses]
        write == statusUpdateWithRetry(ZTWIM, ztwim, top, conflict)
        upgradeable == upgradeableCondition(IsInCreateOnlyMode, statuses)
        gets == [i \in 1..Len(Operands) |->
                   Call("Get", Operands[i], NoObject,
                        IF Operands[i] = failing THEN "Internal"
                        ELSE IF ~operands[Operands[i]].exists THEN "NotFound" ELSE "")]
        calls == (IF ztwim.exists THEN gets ELSE <<>>)
                 \o (IF operatorCondition.exists
                     THEN <<StatusUpdate("OperatorCondition")>> ELSE <<>>)
                 \o (IF ztwim.exists THEN write.calls ELSE <<>>)
    IN  /\ DisturbanceBudget(IF failing = "" THEN NoFault
                             ELSE [kind |-> failing, op |-> "Get"], conflict)
        /\ conflict => ztwim.exists /\ top # ztwim
        /\ ztwim' = IF ztwim.exists THEN write.status ELSE ztwim
        /\ operatorCondition' =
             IF operatorCondition.exists
             THEN [operatorCondition EXCEPT !.upgradeable = upgradeable]
             ELSE operatorCondition
        /\ last' = [Reconciled(ZTWIM, a2, calls, ztwim.exists) EXCEPT
                      !.was = Was(ztwim.conditions),
                      !.stamped =
                        (IF ztwim.exists THEN transitioned(ztwim.conditions, a2.status)
                         ELSE {})
                        \cup (IF operatorCondition.exists
                                   /\ ~keepsTransitionTime(operatorCondition.upgradeable,
                                                           upgradeable.status)
                              THEN {Upgradeable} ELSE {})]
        /\ UNCHANGED <<createOnlyMode, proxyEnv, operands, children, healthy>>
        /\ Settle(ZTWIM, TRUE)

(***************************************************************************)
(* The environment: users and other controllers.                           *)
(***************************************************************************)
OperandSpecs ==
  {OperandSpec("", "ok", GoodIssuer),
   OperandSpec("team-a", "ok", GoodIssuer),
   OperandSpec("", "bad", GoodIssuer),
   OperandSpec("", "ok", Url("", "oidc.cluster1.example.com", "", "", ""))}

Specs(k) == IF k = SpireServer THEN ServerSpecs ELSE OperandSpecs

\* children that users and other controllers are seen to touch
DriftChildren ==
  ServerChildren \cup ServiceChildren \cup {Workload(k) : k \in DaemonOperands}

EnvStep ==
  /\ envSteps < MaxEnvSteps
  /\ envSteps' = envSteps + 1
  /\ last' = NoReconcile
  /\ Unsettle

\* a user edits the spec of an operand CR
EditSpec ==
  \E k \in OperandKinds : \E spec \in Specs(k) :
    /\ operands[k].exists /\ operands[k].spec # spec
    /\ operands' = [operands EXCEPT ![k].spec = spec]
    /\ EnvStep
    /\ UNCHANGED <<createOnlyMode, proxyEnv, ztwim, children, healthy, operatorCondition>>

\* somebody edits a child object
Drift ==
  \E c \in DriftChildren :
    /\ children[c].exists /\ ~children[c].edited
    /\ children' = [children EXCEPT ![c].edited = TRUE, ![c].rv = @ + 1]
    /\ EnvStep
    /\ UNCHANGED <<createOnlyMode, proxyEnv, ztwim, operands, healthy, operatorCondition>>

\* somebody deletes a child object
DeleteChild ==
  \E c \in DriftChildren :
    /\ children[c].exists
    /\ children' = [children EXCEPT ![c] = NoObject]
    /\ healthy' = healthy \ {c}
    /\ EnvStep
    /\ UNCHANGED <<createOnlyMode, proxyEnv, ztwim, operands, operatorCondition>>

\* a workload finishes its rollout
BecomeHealthy ==
  \E k \in DaemonOperands :
    /\ children[Workload(k)].exists /\ Workload(k) \notin healthy
    /\ healthy' = healthy \cup {Workload(k)}
    /\ last' = NoReconcile
    /\ Unsettle
    /\ UNCHANGED <<createOnlyMode, proxyEnv, ztwim, operands, children,
                   operatorCondition, envSteps>>

(***************************************************************************)
(* The operand reconcilers against a cluster with a few operand CRs.       *)
(***************************************************************************)
InitCluster ==
  /\ ztwim = NewTopLevel
  /\ children = [c \in Children |-> NoObject]
  /\ healthy = {}
  /\ operatorCondition = NoOperatorCondition
  /\ settled = [r \in Reconcilers |-> FALSE]
  /\ chain = NotCounted
  /\ envSteps = 0
  /\ last = NoReconcile

\* the proxy environment matters to the reconcilers that validate it
ProxyEnvs(k) ==
  IF k \in {SpireAgent, SpireOIDCDiscoveryProvider}
  THEN {NoProxy, [proxy |-> TRUE, trustedCABundle |-> FALSE]}
  ELSE {NoProxy}

\* Each behaviour follows one operand CR: the reconcilers of different
\* operands share no state, only the aggregator reads them all.
Init ==
  /\ createOnlyMode \in BOOLEAN
  /\ \E k \in OperandKinds : \E spec \in Specs(k) :
       /\ operands = [j \in OperandKinds |-> IF j = k THEN NewCR(spec) ELSE NoCR]
       /\ proxyEnv \in ProxyEnvs(k)
  /\ InitCluster

Next ==
  \/ ServerReconcile
  \/ \E k \in DaemonOperands : OperandReconcile(k)
  \/ EditSpec
  \/ Drift
  \/ DeleteChild
  \/ BecomeHealthy

Spec == Init /\ [][Next]_vars

(***************************************************************************)
(* The aggregator against operand CRs in the states their reconcilers      *)
(* and status managers can leave them in.                                  *)
(***************************************************************************)
WithReady(status, reason, message) ==
  [NoConditions EXCEPT ![Ready] = Condition(status, reason, message)]

\* conditions without a Ready condition
StepsOnly ==
  [NoConditions EXCEPT
     ![SpireServerConfigMapGeneration] =
        Condition("True", "SpireConfigMapResourceCreated", <<>>)]
FailedStep ==
  [WithReady("False", "Failed", <<"Reconciliation", "failed">>) EXCEPT
     ![ChildrenAvailable] = Condition("False", "Failed", <<>>),
     ![CreateOnlyModeStatusType] = Condition("True", "CreateOnlyModeEnabled", <<>>)]

ServerConditions ==
  {NoConditions, StepsOnly, FailedStep,
   WithReady("True", "Ready", <<"All", "components", "are", "ready">>),
   WithReady("False", "Reconciling", <<"Reconciling">>),
   WithReady("False", "InProgress", <<"Waiting", "for", "workload", "rollout">>),
   WithReady("False", "Unhealthy", <<"StatefulSet", "unhealthy">>),
   WithReady("False", "OperandsNotReady", <<"operands", "unavailable">>),
   WithReady("False", "OperandsNotReady", <<"operands", "reconciling">>),
   WithReady("False", "Failed", <<"Secret", "not", "found">>),
   WithReady("False", "RolloutPending", <<"Rollout", "PROGRESSING">>),
   WithReady("False", "", <<"ConfigMap", "Not", "Found">>),
   WithReady("False", "Degraded", <<"crash", "loop">>)}
AgentConditions ==
  {NoConditions, FailedStep,
   WithReady("True", "Ready", <<"All", "components", "are", "ready">>),
   WithReady("False", "InProgress", <<"Waiting", "for", "workload", "rollout">>)}
DriverConditions ==
  {WithReady("True", "Ready", <<"All", "components", "are", "ready">>),
   WithReady("False", "RolloutPending", <<"Rollout", "PROGRESSING">>)}
ProviderConditions ==
  {WithReady("True", "Ready", <<"All", "components", "are", "ready">>),
   WithReady("False", "Failed", <<"Reconciliation", "failed">>)}

OperandStates(k) ==
  LET cr(spec, conditions) == [NewCR(spec) EXCEPT !.conditions = conditions]
  IN  {NoCR} \cup
      CASE k = SpireServer -> {cr(PlainSpec, c) : c \in ServerConditions}
        [] k = SpireAgent -> {cr(OperandSpec("", "ok", GoodIssuer), c) : c \in AgentConditions}
        [] k = SpiffeCSIDriver ->
             {cr(OperandSpec("", "ok", GoodIssuer), c) : c \in DriverConditions}
        [] OTHER -> {cr(OperandSpec("", "ok", GoodIssuer), c) : c \in ProviderConditions}

InitAggregator ==
  /\ createOnlyMode \in BOOLEAN
  /\ proxyEnv = NoProxy
  /\ \E server \in OperandStates(SpireServer), agent \in OperandStates(SpireAgent),
        driver \in OperandStates(SpiffeCSIDriver),
        provider \in OperandStates(SpireOIDCDiscoveryProvider) :
       operands = [k \in OperandKinds |->
                     CASE k = SpireServer -> server
                       [] k = SpireAgent -> agent
                       [] k = SpiffeCSIDriver -> driver
                       [] OTHER -> provider]
  /\ ztwim \in {NewTopLevel} \cup
               (IF \A k \in DaemonOperands : ~operands[k].exists
                THEN {NoTopLevel} ELSE {})
  /\ children = [c \in Children |-> NoObject]
  /\ healthy = {}
  /\ operatorCondition \in {NoOperatorCondition,
                              [exists |-> TRUE, upgradeable |-> NoCondition]}
  /\ settled = [r \in Reconcilers |-> FALSE]
  /\ chain = NotCounted
  /\ envSteps = 0
  /\ last = NoReconcile

NextAggregator == AggregatorReconcile

SpecAggregator == InitAggregator /\ [][NextAggregator]_vars

(***************************************************************************)
(* A fresh install: the top-level CR and the four operand CRs are created  *)
(* with valid specs, the five reconcilers run in any order and each runs   *)
(* again while it has something to do (every write raises a watch event),  *)
(* and every workload that is created completes its rollout.               *)
(***************************************************************************)
InitInstall ==
  /\ createOnlyMode = FALSE
  /\ proxyEnv = NoProxy
  /\ operands = [k \in OperandKinds |->
                   IF k = SpireServer THEN NewCR(PlainSpec)
                   ELSE NewCR(OperandSpec("", "ok", GoodIssuer))]
  /\ ztwim = NewTopLevel
  /\ children = [c \in Children |-> NoObject]
  /\ healthy = {}
  /\ operatorCondition = [exists |-> TRUE, upgradeable |-> NoCondition]
  /\ settled = [r \in Reconcilers |-> FALSE]
  /\ chain = NotCounted
  /\ envSteps = MaxEnvSteps
  /\ last = NoReconcile

NextInstall ==
  \/ ServerReconcile
  \/ \E k \in DaemonOperands : OperandReconcile(k)
  \/ AggregatorReconcile
  \/ BecomeHealthy

SpecInstall ==
  /\ InitInstall
  /\ [][NextInstall]_vars
  /\ WF_vars(ServerReconcile)
  /\ \A k \in DaemonOperands : WF_vars(OperandReconcile(k))
  /\ WF_vars(AggregatorReconcile)
  /\ WF_vars(BecomeHealthy)

(***************************************************************************)
(* The Services of the SPIRE server: the server and webhook Services and   *)
(* the federation Service, against spec edits, drift and deletions.        *)
(***************************************************************************)
ServiceSpecs ==
  {PlainSpec, RelabelledSpec, SpiffeFederationSpec, UnroutedFederationSpec}

InitServices ==
  /\ createOnlyMode \in BOOLEAN
  /\ proxyEnv = NoProxy
  /\ \E spec \in ServiceSpecs :
       operands = [k \in OperandKinds |-> IF k = SpireServer THEN NewCR(spec) ELSE NoCR]
  /\ InitCluster

NextServices ==
  \/ ServiceReconcile
  \/ ServerReconcile
  \/ EditSpec
  \/ Drift
  \/ DeleteChild

SpecServices == InitServices /\ [][NextServices]_vars

(***************************************************************************)
(* Properties of one reconcile.                                            *)
(***************************************************************************)
Calls(verbs) == {i \in 1..Len(last.calls) : last.calls[i].verb \in verbs}

ServerSpecInvalid(spec) ==
  \/ ~IsValidURL(spec.jwtIssuer)
  \/ validateTTLDurations(spec) # ""
  \/ validateFederationConfig(spec.federation, spec.trustDomain) # ""

\* the spec of the CR the last reconcile loaded fails a validator that
\* its Reconcile runs
ReconciledSpecInvalid ==
  /\ last.rec \in OperandKinds /\ last.found
  /\ IF last.rec = SpireServer
     THEN ServerSpecInvalid(operands[SpireServer].spec)
     ELSE ztwim.exists
          /\ validateConfiguration(last.rec, operands[last.rec].spec, proxyEnv) # ""

\* C1: in create-only mode no reconcile of an operand issues an Update for
\* a child that existed when the reconcile started.
CreateOnlyNeverUpdates ==
  (last.rec \in OperandKinds /\ last.createOnly)
    => \A i \in Calls({"Update"}) : last.calls[i].kind \notin last.before

\* C2: a reconcile that repeats a successful reconcile of the same key,
\* with nothing changed in between, issues no write.
RepeatedReconcileWritesNothing ==
  last.repeat => Calls({"Create", "Update", "Delete", "StatusUpdate"}) = {}

\* C3: a server reconcile whose spec fails a structural validation (JWT
\* issuer URL, TTLs, federation) issues no Create and no Update.
InvalidServerSpecTouchesNoChild ==
  (last.rec = SpireServer /\ ReconciledSpecInvalid)
    => Calls({"Create", "Update"}) = {}

InvalidFederationReconciled ==
  /\ last.rec = SpireServer /\ last.found
  /\ operands[SpireServer].spec = SelfFederationSpec
  /\ last.invalid = "federation"
  /\ last.calls = <<StatusUpdate(SpireServer)>>

\* C4: a reconcile whose user input fails validation returns no requeue
\* and no error, whichever operand and whichever validator.
ValidationFailureReturnsNothing ==
  ReconciledSpecInvalid => (last.invalid # "" /\ ~last.requeue /\ ~last.err)

InvalidIssuerReconciled ==
  /\ last.rec = SpireOIDCDiscoveryProvider /\ ReconciledSpecInvalid
  /\ last.invalid = "InvalidJWTIssuerURL"
  /\ operands[SpireOIDCDiscoveryProvider].conditions[ConfigurationValid].status = "False"

\* C10: every child a reconcile creates carries a controller reference to
\* its operand CR, and every operand CR that was reconciled carries one to
\* the top-level CR.
OwnerCascade ==
  /\ \A i \in Calls({"Create"}) :
       last.calls[i].err = "" => last.calls[i].obj.owner = last.rec
  /\ (last.rec \in OperandKinds /\ last.found /\ ~last.err /\ last.invalid = "")
       => operands[last.rec].owner = ZTWIM

\* C12: every Update of a child carries the resource version the reconcile
\* read for it; an Update that succeeds replaces exactly the version that
\* was read, and one that follows a concurrent write is answered with a
\* conflict and leaves that write in place.
UpdateCarriesReadVersion ==
  \A i \in Calls({"Update"}) :
    LET call == last.calls[i]
    IN  call.kind \in Children
          => /\ call.obj.rv = last.read[call.kind]
             /\ call.err = "" => children[call.kind].rv <= last.read[call.kind] + 1
             /\ children[call.kind].rv > last.read[call.kind] + 1
                  => call.err = "Conflict" /\ children[call.kind].edited

StaleUpdateRejected ==
  \E i \in Calls({"Update"}) :
    /\ last.calls[i].kind = federationServiceName
    /\ last.calls[i].err = "Conflict"
    /\ last.calls[i].obj.rv = last.read[federationServiceName]
    /\ children[federationServiceName].rv = last.read[federationServiceName] + 1
    /\ children[federationServiceName].edited
    /\ last.err

\* C13: every Update of a Service carries the cluster IP and the other
\* fields the cluster assigned to it, and every Service in the store keeps
\* what it was assigned.
ServiceUpdateKeepsClusterIP ==
  /\ \A i \in Calls({"Update"}) :
       last.calls[i].kind \in ServiceKinds
         => last.calls[i].obj.assigned = Allocated(last.calls[i].kind)
  /\ \A kind \in ServiceKinds :
       children[kind].exists => children[kind].assigned = Allocated(kind)

ServicesUpdatedWithClusterIP ==
  /\ \E i \in Calls({"Update"}) :
       /\ last.calls[i].kind = ServerService /\ last.calls[i].err = ""
       /\ last.calls[i].obj.assigned.clusterIP = <<"ip of", ServerService>>
       /\ last.calls[i].obj.data # getSpireServerService(PlainSpec).data
  /\ children[ServerService].assigned.clusterIP = <<"ip of", ServerService>>

\* the hashes of the two configs rendered from the spec of the server CR
RenderedHashes ==
  <<generateConfigHash(
      marshalToJSON(generateServerConfMap(operands[SpireServer].spec),
        CHOOSE order \in MapOrders(generateServerConfMap(operands[SpireServer].spec)
                                     .federation.federates_with) : TRUE)),
    generateConfigHashFromString(
      generateSpireControllerManagerConfigYaml(operands[SpireServer].spec))>>

\* a server reconcile outside create-only mode that rendered the configs
\* (the spec passed validation) and met no store error
RenderedAndApplied ==
  /\ last.rec = SpireServer /\ last.found
  /\ ~last.createOnly /\ last.invalid = "" /\ ~last.err

\* C14: outside create-only mode, a server reconcile that finds on the
\* StatefulSet a hash annotation other than the hash of the config it
\* rendered, for either config, updates the StatefulSet, and afterwards the
\* pod template carries the hashes of both rendered configs.
ConfigChangeRestampsStatefulSet ==
  RenderedAndApplied
    => /\ children[StatefulSet].exists
       /\ <<children[StatefulSet].data.serverConfigHash,
             children[StatefulSet].data.controllerManagerConfigHash>> = RenderedHashes
       /\ (last.hashes # <<>> /\ last.hashes # RenderedHashes)
            => \E i \in Calls({"Update"}) :
                 /\ last.calls[i].kind = StatefulSet /\ last.calls[i].err = ""
                 /\ <<last.calls[i].obj.data.serverConfigHash,
                       last.calls[i].obj.data.controllerManagerConfigHash>> = RenderedHashes

ServerConfigAloneRestamps ==
  /\ RenderedAndApplied
  /\ operands[SpireServer].spec = WarnTTLSpec
  /\ last.hashes # <<>>
  /\ last.hashes[1] # RenderedHashes[1]
  /\ last.hashes[2] = RenderedHashes[2]
  /\ children[StatefulSet].data.serverConfigHash = RenderedHashes[1]
  /\ \E i \in Calls({"Update"}) : last.calls[i].kind = StatefulSet

\* C15: rendering is canonical: the server.conf in the ConfigMap and the
\* server.conf whose hash is stamped on the StatefulSet, rendered
\* separately from one spec, have the same hash, and a server reconcile
\* that repeats a successful one with nothing changed leaves the hash
\* annotations of the StatefulSet as they were.
RenderedHashIsStable ==
  RenderedAndApplied
    => /\ generateConfigHash(children[ServerConfigMap].data)
            = children[StatefulSet].data.serverConfigHash
       /\ generateConfigHashFromString(children[ControllerManagerConfigMap].data)
            = children[StatefulSet].data.controllerManagerConfigHash
       /\ last.repeat
            => /\ last.hashes = <<children[StatefulSet].data.serverConfigHash,
                                  children[StatefulSet].data.controllerManagerConfigHash>>
               /\ \A i \in Calls({"Update"}) : last.calls[i].kind # StatefulSet

TwoPeersRenderedAgain ==
  /\ RenderedAndApplied /\ last.repeat
  /\ operands[SpireServer].spec = TwoPeersSpec
  /\ Len(children[ServerConfigMap].data.body.federation.federates_with) = 2
  /\ children[ServerConfigMap].data.body.federation.federates_with[1].trust_domain = TD2
  /\ last.hashes[1] = generateConfigHash(children[ServerConfigMap].data)

\* C16: a route that carries an external-certificate reference is in the
\* store only while the Role and RoleBinding that let the ingress router
\* read the certificate secret are there too: the reconcile creates them
\* before it creates or updates the route.
ExternalCertRouteAfterRBAC ==
  (/\ children[federationRouteName].exists
   /\ children[federationRouteName].data.tls.externalCertificate # "")
    => children[ServerExternalCertRBAC].exists

\* the federation routes the last reconcile created or updated
RoutesWritten ==
  {last.calls[i].obj : i \in {j \in Calls({"Create", "Update"}) :
                                last.calls[j].kind = federationRouteName}}

\* C17: every federation route the server reconcile creates or updates
\* terminates TLS as the bundle endpoint profile says: passthrough exactly
\* for https_spiffe, re-encrypt exactly for https_web (with ACME or with a
\* serving cert), and in both cases insecure traffic is redirected.
RouteTerminationFollowsProfile ==
  \A route \in RoutesWritten :
    LET profile == operands[SpireServer].spec.federation.bundleEndpoint.profile
    IN  /\ route.data.tls.set
        /\ route.data.tls.termination = "passthrough" <=> profile = HttpsSpiffeProfile
        /\ route.data.tls.termination = "reencrypt" <=> profile = HttpsWebProfile
        /\ route.data.tls.insecurePolicy = "Redirect"

\* the route of an ACME endpoint was rewritten from passthrough to re-encrypt
AcmeRouteReencrypts ==
  /\ operands[SpireServer].spec = AcmeSpec
  /\ federationRouteName \in last.before
  /\ \E i \in Calls({"Update"}) :
       /\ last.calls[i].kind = federationRouteName /\ last.calls[i].err = ""
  /\ children[federationRouteName].data.tls.termination = "reencrypt"
  /\ children[federationRouteName].data.tls.externalCertificate = ""

\* C18: every federation route the server reconcile creates or updates has
\* the host "federation." followed by the trust domain of the server CR.
RouteHostIsFederationTrustDomain ==
  \A route \in RoutesWritten :
    route.data.host = <<"federation.", operands[SpireServer].spec.trustDomain>>

\* the trust domain moved and the route was updated to the new host
RouteHostFollowsTrustDomain ==
  /\ operands[SpireServer].spec = MovedFederationSpec
  /\ \E i \in Calls({"Update"}) :
       /\ last.calls[i].kind = federationRouteName /\ last.calls[i].err = ""
  /\ children[federationRouteName].data.host = <<"federation.", TD2>>

(***************************************************************************)
(* Operand CRs in a cluster without the top-level CR: one operand CR was   *)
(* created and the top-level CR "cluster" was not.                         *)
(***************************************************************************)
InitOrphaned ==
  /\ createOnlyMode \in BOOLEAN
  /\ proxyEnv = NoProxy
  /\ \E k \in OperandKinds : \E spec \in Specs(k) :
       operands = [o \in OperandKinds |-> IF o = k THEN NewCR(spec) ELSE NoCR]
  /\ ztwim = NoTopLevel
  /\ children = [c \in Children |-> NoObject]
  /\ healthy = {}
  /\ operatorCondition = NoOperatorCondition
  /\ settled = [r \in Reconcilers |-> FALSE]
  /\ chain = NotCounted
  /\ envSteps = 0
  /\ last = NoReconcile

NextOrphaned ==
  \/ ServerReconcile
  \/ \E k \in DaemonOperands : OperandReconcile(k)
  \/ EditSpec
  \/ Drift
  \/ DeleteChild

SpecOrphaned == InitOrphaned /\ [][NextOrphaned]_vars

\* C20: an operand reconcile that finds its CR but not the top-level CR
\* records a condition with reason Failed, returns neither a requeue nor an
\* error, and writes no child; so for every operand reconciler, the SPIRE
\* server's among them.
OrphanedOperandOnlyFails ==
  (last.rec \in OperandKinds /\ last.found /\ ~ztwim.exists)
    => /\ ~last.err /\ ~last.requeue
       /\ \E t \in ConditionTypes :
            /\ last.status[t].set /\ last.status[t].reason = "Failed"
            /\ operands[last.rec].conditions[t].reason = "Failed"
       /\ \A i \in Calls({"Create", "Update", "Delete"}) : last.calls[i].kind \notin Children
       /\ children = [c \in Children |-> NoObject]

BootstrapChildren(k) ==
  LET empty == [c \in Children |-> NoObject]
      order == CHOOSE o \in RenderOrders(operands[k]) : TRUE
      acc == IF k = SpireServer
             THEN serverReconcileBody(empty, operands[k], FALSE, NoFault, order)
             ELSE operandReconcileBody(empty, k, operands[k], ztwim, proxyEnv, {}, FALSE,
                                       NoFault)
  IN  {c \in Children : acc.store[c].exists}

\* the children the last reconcile created
Created ==
  {last.calls[i].kind : i \in {j \in Calls({"Create"}) : last.calls[j].err = ""}}
    \cap Children

TTLConfigurationValid == "TTLConfigurationValid"

\* a server reconcile that came as far as the TTL validation
ReachedTTLValidation ==
  /\ last.rec = SpireServer /\ last.found
  /\ IsValidURL(operands[SpireServer].spec.jwtIssuer)

\* the reconcile published the condition with status False and the reason
Published(type, reason) ==
  \E t \in ConditionTypes :
    /\ t = type
    /\ last.status[t].set /\ last.status[t].status = "False"
    /\ last.status[t].reason = reason
    /\ operands[last.rec].conditions[t].status = "False"
    /\ operands[last.rec].conditions[t].reason = reason

\* C23: the server reconcile rejects the TTL configuration exactly when the
\* CA validity, the X509 TTL or the JWT TTL is not positive or the CA
\* validity is shorter than one of the two TTLs (equal is accepted), and on
\* rejection it publishes TTLConfigurationValid=False/TTLValidationFailed.
TTLRejectionPublished ==
  ReachedTTLValidation
    => LET spec == operands[SpireServer].spec
           rejected == \/ spec.caValidity <= 0
                       \/ spec.defaultX509Validity <= 0
                       \/ spec.defaultJWTValidity <= 0
                       \/ spec.caValidity < spec.defaultX509Validity
                       \/ spec.caValidity < spec.defaultJWTValidity
       IN  /\ last.invalid = "ttl" <=> rejected
           /\ rejected => Published(TTLConfigurationValid, "TTLValidationFailed")

\* the spec of the server CR lists its own trust domain among the
\* federated ones
FederatesWithSelf ==
  LET spec == operands[SpireServer].spec
  IN  /\ spec.federation.set
      /\ \E i \in 1..Len(spec.federation.federatesWith) :
           spec.federation.federatesWith[i].trustDomain = spec.trustDomain

\* C24: a server reconcile that reaches the federation validation with a
\* federates-with entry for the server's own trust domain publishes
\* ConfigurationValid=False/InvalidFederationConfiguration.
SelfFederationPublishedInvalid ==
  (/\ last.rec = SpireServer /\ last.found
   /\ last.invalid \notin {"jwtIssuer", "ttl"}
   /\ FederatesWithSelf)
    => Published(ConfigurationValid, "InvalidFederationConfiguration")

\* the last step was an aggregator reconcile that found the top-level CR
Aggregated == last.rec = ZTWIM /\ last.found

\* the class of a non-ready operand record by its message alone: a known
\* message constant, then a case-insensitive substring, else failed
ClassByMessage(operand) ==
  IF \/ operand.message \in {<<"CR", "not", "found">>,
                              <<"Waiting", "for", "initial", "reconciliation">>,
                              <<"Reconciling">>}
     \/ \E words \in {<<"not", "found">>, <<"initial">>, <<"reconciling">>,
                       <<"progressing">>} : contains(operand.message, words)
  THEN "progressing" ELSE "failed"

\* the class by reason first, for the given failure reasons
ClassByReason(operand, failureReasons) ==
  LET reason == FindReadyCondition(operand).reason
  IN  IF reason \in {"InProgress", "NotFound", "InitialReconcile", "Reconciling"}
      THEN "progressing"
      ELSE IF reason \in failureReasons THEN "failed"
      ELSE ClassByMessage(operand)

NonReadyRecords ==
  {i \in 1..Len(ztwim.operands) : ~StringToBool(ztwim.operands[i].ready)}

Restart ==
  /\ createOnlyMode' = ~createOnlyMode
  /\ last' = NoReconcile
  /\ Unsettle
  /\ UNCHANGED <<proxyEnv, ztwim, operands, children, healthy, operatorCondition, envSteps>>

RestartSpecs(k) ==
  IF k = SpireServer THEN {PlainSpec, BadTTLSpec, SpiffeFederationSpec}
  ELSE {OperandSpec("", "ok", GoodIssuer), OperandSpec("", "bad", GoodIssuer)}

InitRestart ==
  /\ createOnlyMode \in BOOLEAN
  /\ \E k \in OperandKinds : \E spec \in RestartSpecs(k) :
       /\ operands = [j \in OperandKinds |-> IF j = k THEN NewCR(spec) ELSE NoCR]
       /\ proxyEnv \in ProxyEnvs(k)
  /\ InitCluster

NextRestart ==
  \/ ServerReconcile
  \/ \E k \in DaemonOperands : OperandReconcile(k)
  \/ AggregatorReconcile
  \/ Restart

SpecRestart == InitRestart /\ [][NextRestart]_vars

\* the condition the reconciled object carries now
Current(t) ==
  IF t = Upgradeable THEN operatorCondition.upgradeable
  ELSE IF last.rec = ZTWIM THEN ztwim.conditions[t]
  ELSE operands[last.rec].conditions[t]

\* the last reconcile loaded its object and ran its create-only step
CreateOnlyStepRan ==
  /\ last.rec \in Reconcilers
  /\ last.found

\* C26: the CreateOnlyMode condition follows the mode: a reconcile of an
\* active process leaves it True; a reconcile of an inactive process
\* writes False only over a stored True and otherwise writes nothing, so
\* a condition that was never created stays absent
CreateOnlyConditionFollowsMode ==
  CreateOnlyStepRan =>
    LET was == last.was[CreateOnlyModeStatusType].status
        now == Current(CreateOnlyModeStatusType).status
        set == last.status[CreateOnlyModeStatusType]
    IN  IF last.createOnly
        THEN set.status = "True" /\ now = "True"
        ELSE IF was = "True"
        THEN set.status = "False" /\ now = "False"
        ELSE ~set.set /\ now = was

\* a server reconcile after a restart without the mode turns the stored
\* True into False
CreateOnlyTurnedOff ==
  /\ last.rec = SpireServer
  /\ last.found
  /\ ~last.createOnly
  /\ last.was[CreateOnlyModeStatusType].status = "True"
  /\ Current(CreateOnlyModeStatusType).status = "False"

\* the last reconcile met a version conflict at its status write
StatusWriteConflicted ==
  \E i \in 1..Len(last.calls) :
    last.calls[i].verb = "StatusUpdate" /\ last.calls[i].err = "Conflict"

InitQuiesce ==
  /\ createOnlyMode \in BOOLEAN
  /\ proxyEnv = NoProxy
  /\ \E spec \in {PlainSpec, TwoPeersSpec} : \E daemon \in DaemonOperands :
       operands = [k \in OperandKinds |->
                     IF k = SpireServer THEN NewCR(spec)
                     ELSE IF k = daemon THEN NewCR(OperandSpec("", "ok", GoodIssuer))
                     ELSE NoCR]
  /\ ztwim = NewTopLevel
  /\ children = [c \in Children |-> NoObject]
  /\ healthy = {}
  /\ operatorCondition = [exists |-> TRUE, upgradeable |-> NoCondition]
  /\ settled = [r \in Reconcilers |-> FALSE]
  /\ envSteps = MaxEnvSteps
  /\ chain = 0
  /\ last = NoReconcile

NextQuiesce ==
  \/ ServerReconcile
  \/ \E k \in DaemonOperands : OperandReconcile(k)
  \/ AggregatorReconcile
  \/ BecomeHealthy

SpecQuiesce == InitQuiesce /\ [][NextQuiesce]_vars

WebServingCerts ==
  LET endpoint == operands[SpireServer].spec.federation.bundleEndpoint
  IN  IF endpoint.profile = HttpsWebProfile /\ endpoint.httpsWeb.set
         /\ endpoint.httpsWeb.servingCert.set
      THEN {endpoint.httpsWeb.servingCert} ELSE {}

StatefulSetsWritten ==
  {last.calls[i].obj : i \in {j \in Calls({"Create", "Update"}) :
                                last.calls[j].kind = StatefulSet}}

\* C31: every StatefulSet the server reconcile creates or updates exposes
\* the federation container port (8443) if and only if the server spec
\* configures federation
FederationPortOnlyWithFederation ==
  \A sts \in StatefulSetsWritten :
    (\E port \in sts.data.spec.ports : port[1] = "federation")
      <=> operands[SpireServer].spec.federation.set

\* the server reconcile ran to the end and wrote what it found differing
ServerReconciledThrough ==
  /\ last.rec = SpireServer
  /\ last.found
  /\ ~last.err
  /\ last.invalid = ""
  /\ ~last.createOnly

\* the volume the pod template mounts at a directory, as a set of secrets
MountedAt(sts, dir) ==
  {volume[2] : volume \in {v \in sts.data.spec.volumes :
                             \E m \in sts.data.spec.volumeMounts :
                               m[1] = v[1] /\ m[2] = dir}}

GoodAcme ==
  AcmeConfig(Str("https://", "acme.example.org"), "federation.td1", "admin@td1", "true")
FederationTLS(interval) ==
  ServingCertConfig("spire-server-federation-tls", interval, "spire-server-federation-tls")
WebEndpoint(web) == BundleEndpointConfig(FederationPort, HttpsWebProfile, 300, web)

FileSyncIntervals == {0 - 5, 0, 29, 30, 3600, 3601, 86400}

Endpoints ==
  {SpiffeEndpoint,
   BundleEndpointConfig(9443, HttpsSpiffeProfile, 0, NoHttpsWeb),
   BundleEndpointConfig(0, HttpsSpiffeProfile, 0, NoHttpsWeb),
   BundleEndpointConfig(65536, HttpsSpiffeProfile, 0, NoHttpsWeb),
   BundleEndpointConfig(FederationPort, "", 0, NoHttpsWeb),
   BundleEndpointConfig(FederationPort, "https_other", 0,
                        HttpsWebConfig(NoAcme, FederationTLS(60))),
   WebEndpoint(NoHttpsWeb),
   WebEndpoint(HttpsWebConfig(NoAcme, NoServingCert)),
   WebEndpoint(HttpsWebConfig(GoodAcme, FederationTLS(60))),
   WebEndpoint(HttpsWebConfig(GoodAcme, NoServingCert))}
    \cup {WebEndpoint(HttpsWebConfig(NoAcme, FederationTLS(n))) : n \in FileSyncIntervals}

WebPeer(td, id) == FederatesWithConfig(td, Str("https://", td), HttpsWebProfile, id)

PeerLists ==
  {<<Peer(TD2)>>,
   <<Peer(TD2), Peer(TD1)>>,
   <<Peer("")>>,
   <<FederatesWithConfig(TD2, Str("http://", TD2), HttpsSpiffeProfile, Str("spiffe://", TD2))>>,
   <<FederatesWithConfig(TD2, Str("https://", TD2), HttpsSpiffeProfile, EmptyStr)>>,
   <<FederatesWithConfig(TD2, Str("https://", TD2), HttpsSpiffeProfile, Str("", TD2))>>,
   <<WebPeer(TD2, EmptyStr), Peer(TD3)>>,
   [i \in 1..MaxFederatesWith |-> Peer(TD2)],
   [i \in 1..(MaxFederatesWith + 1) |-> Peer(TD2)]}

FederationOf(endpoint, peers) ==
  SpireServerSpec(TD1, GoodIssuer, 3, 1, 1, "", FederationConfig(endpoint, peers, "true"))

FederationSpecs ==
  {PlainSpec}
    \cup {FederationOf(endpoint, <<Peer(TD2)>>) : endpoint \in Endpoints}
    \cup {FederationOf(SpiffeEndpoint, peers) : peers \in PeerLists}

InitFederation ==
  /\ createOnlyMode \in BOOLEAN
  /\ proxyEnv = NoProxy
  /\ \E spec \in FederationSpecs :
       operands = [k \in OperandKinds |-> IF k = SpireServer THEN NewCR(spec) ELSE NoCR]
  /\ InitCluster

\* a user rewrites the federation block of the SpireServer
EditFederation ==
  \E spec \in FederationSpecs :
    /\ operands[SpireServer].spec # spec
    /\ operands' = [operands EXCEPT ![SpireServer].spec = spec]
    /\ EnvStep
    /\ UNCHANGED <<createOnlyMode, proxyEnv, ztwim, children, healthy, operatorCondition>>

NextFederation ==
  \/ ServerReconcile
  \/ EditFederation

SpecFederation == InitFederation /\ [][NextFederation]_vars

\* the server reconcile that just ran took the federation block past the
\* validator
FederationAccepted ==
  /\ last.rec = SpireServer
  /\ last.found
  /\ operands[SpireServer].spec.federation.set
  /\ last.invalid = ""

\* the kinds the reconcile that just ran wrote or created
Written ==
  {last.calls[i].kind : i \in {j \in Calls({"Create", "Update"}) : last.calls[j].err = ""}}

\* C33: after a server reconcile that accepted the federation block and
\* wrote the federation Service, the port server.conf makes the bundle
\* endpoint listen on, the federation container port of the StatefulSet
\* and the target port of the federation Service are one port
FederationPortsAgree ==
  (FederationAccepted /\ ServerReconciledThrough
     /\ federationServiceName \in Written)
    => LET listen == children[ServerConfigMap].data.body.federation.bundle_endpoint.port
       IN  /\ \A port \in children[StatefulSet].data.spec.ports :
                 port[1] = "federation" => port[2] = listen
           /\ \A port \in children[federationServiceName].data.ports :
                 port.targetPort = listen

KnownProfiles == {HttpsSpiffeProfile, HttpsWebProfile}

\* C34: a server reconcile of a federation block whose bundle endpoint
\* profile is neither https_spiffe nor https_web, the empty profile
\* included, ends at the federation validator: it reports the block
\* invalid and writes neither server.conf nor the federation route
UnknownProfileRejected ==
  (/\ last.rec = SpireServer
   /\ last.found
   /\ operands[SpireServer].spec.federation.set
   /\ operands[SpireServer].spec.federation.bundleEndpoint.profile \notin KnownProfiles)
    => /\ last.invalid # ""
       /\ Written \cap {ServerConfigMap, federationRouteName} = {}

\* the server.conf bodies the reconcile that just ran wrote, and the one
\* the cluster holds
ServerConfsSeen ==
  {last.calls[i].obj.data.body : i \in {j \in Calls({"Create", "Update"}) :
                                          last.calls[j].kind = ServerConfigMap}}
    \cup {children[c].data.body : c \in {k \in {ServerConfigMap} : children[k].exists}}

\* C35: a server reconcile accepts a Web-PKI bundle endpoint only with an
\* httpsWeb block that sets exactly one of acme and servingCert, and no
\* server.conf written or stored has both an acme object and a
\* serving_cert_file block in its bundle endpoint
WebPKINeedsExactlyOne ==
  /\ (FederationAccepted
        /\ operands[SpireServer].spec.federation.bundleEndpoint.profile = HttpsWebProfile)
       => LET web == operands[SpireServer].spec.federation.bundleEndpoint.httpsWeb
          IN  web.set /\ (web.acme.set # web.servingCert.set)
  /\ \A body \in ServerConfsSeen :
       ~(body.federation.bundle_endpoint.acme.kind = "object"
           /\ body.federation.bundle_endpoint.serving_cert_file.present)

\* a reconcile turned down a Web-PKI endpoint with both ACME and a serving
\* cert, and the server.conf an earlier reconcile rendered for the serving
\* cert alone is still the one stored
BothRejectedAfterOneAccepted ==
  /\ last.rec = SpireServer /\ last.found
  /\ last.invalid # ""
  /\ LET web == operands[SpireServer].spec.federation.bundleEndpoint.httpsWeb
     IN  /\ operands[SpireServer].spec.federation.bundleEndpoint.profile = HttpsWebProfile
         /\ web.acme.set /\ web.servingCert.set
  /\ children[ServerConfigMap].exists
  /\ children[ServerConfigMap].data.body.federation.bundle_endpoint.serving_cert_file.present
  /\ children[ServerConfigMap].data.body.federation.bundle_endpoint.acme.kind = "absent"

\* the serving certs of the Web-PKI endpoint the SpireServer asks for
ServingCertsAsked ==
  LET endpoint == operands[SpireServer].spec.federation.bundleEndpoint
  IN  {cert \in {endpoint.httpsWeb.servingCert} :
         /\ operands[SpireServer].spec.federation.set
         /\ endpoint.profile = HttpsWebProfile
         /\ endpoint.httpsWeb.set
         /\ cert.set}

\* C36: a server reconcile accepts a serving cert whose fileSyncInterval
\* is not zero only when the interval lies in 30..3600; with any other
\* non-zero interval the reconcile fails federation validation
FileSyncIntervalInRange ==
  (last.rec = SpireServer /\ last.found)
    => \A cert \in ServingCertsAsked :
         (cert.fileSyncInterval # 0 /\ cert.fileSyncInterval \notin 30..3600)
           => last.invalid # ""

\* the serving_cert_file block of the stored server.conf
StoredServingCertFile ==
  children[ServerConfigMap].data.body.federation.bundle_endpoint.serving_cert_file

AcceptedPeersAreWellFormed ==
  FederationAccepted
    => LET federation == operands[SpireServer].spec.federation
           own == operands[SpireServer].spec.trustDomain
       IN  /\ Len(federation.federatesWith) <= MaxFederatesWith
           /\ \A i \in 1..Len(federation.federatesWith) :
                LET entry == federation.federatesWith[i]
                IN  /\ entry.trustDomain # ""
                    /\ entry.trustDomain # own
                    /\ HasPrefix(entry.bundleEndpointUrl, "https://")
                    /\ entry.bundleEndpointProfile = HttpsSpiffeProfile
                         => /\ entry.endpointSpiffeId # EmptyStr
                            /\ HasPrefix(entry.endpointSpiffeId, "spiffe://")

\* a reconcile accepted a block with as many entries as the validator
\* allows and rendered it
FullPeerListAccepted ==
  /\ FederationAccepted
  /\ Len(operands[SpireServer].spec.federation.federatesWith) = MaxFederatesWith
  /\ ServerConfigMap \in Written
  /\ children[ServerConfigMap].data.body.federation.has_federates_with

\* C39: in create-only mode a reconcile of an operand neither updates nor
\* deletes a child that existed when it started, and every such child is
\* still in the cluster afterwards: a federation Service stays in place
\* when federation is taken out of the server spec
CreateOnlyLeavesChildrenInPlace ==
  (last.rec \in OperandKinds /\ last.createOnly)
    => /\ \A i \in Calls({"Update", "Delete"}) : last.calls[i].kind \notin last.before
       /\ \A c \in last.before : children[c].exists

\* C40: outside create-only mode, a server reconcile that succeeds on a
\* spec without federation leaves neither the federation Service nor the
\* federation Route the operator created for an earlier spec in the
\* cluster
FederationRemovedLeavesNoChild ==
  (/\ last.rec = SpireServer /\ last.found
   /\ ~last.createOnly /\ ~last.err /\ last.invalid = ""
   /\ ~operands[SpireServer].spec.federation.set)
    => /\ ~children[federationServiceName].exists
       /\ ~children[federationRouteName].exists

\* the condition under which each step of the server reconcile reports
StepCondition(kind) ==
  CASE kind = ServerConfigMap -> SpireServerConfigMapGeneration
    [] kind = ControllerManagerConfigMap -> SpireControllerManagerConfigMapGeneration
    [] kind = BundleConfigMap -> SpireBundleConfigMapGeneration
    [] kind = StatefulSet -> SpireServerStatefulSetGeneration
    [] kind = federationServiceName -> FederationServiceReady
    [] kind = federationRouteName -> FederationRouteReady
    [] kind \in ServiceKinds -> ServiceAvailable

\* C19: a server reconcile that meets a store error other than not-found
\* at a child step returns the error and records the condition of that
\* step with status False, whether the error came from a write or from
\* the read of the child.
StoreErrorFailsStepCondition ==
  /\ (\E i \in 1..Len(last.calls) :
        /\ last.calls[i].kind \in Children
        /\ last.calls[i].err \notin {"", "NotFound", "AlreadyExists"}) => last.err
  /\ (last.rec = SpireServer /\ last.err)
       => /\ last.fault # NoFault
          /\ last.status[StepCondition(last.fault.kind)].status = "False"

ObservedReady(k) ==
  /\ \E i \in Calls({"Get"}) : last.calls[i].kind = k /\ last.calls[i].err = ""
  /\ operands[k].exists
  /\ operands[k].conditions[Ready].status = "True"

\* the Get of the operand CR succeeded, or failed with something other
\* than NotFound, and the operand is not ready
ObservedNotReady(k) ==
  /\ \E i \in Calls({"Get"}) : last.calls[i].kind = k /\ last.calls[i].err # "NotFound"
  /\ ~ObservedReady(k)

TopLevelIs(type, status, reason) ==
  /\ ztwim.conditions[type].status = status
  /\ ztwim.conditions[type].reason = reason

\* the operand records of the last aggregation, by classification
Classified(class) ==
  {i \in 1..Len(ztwim.operands) :
     /\ ~StringToBool(ztwim.operands[i].ready)
     /\ classify(ztwim.operands[i]) = class}

\* the message of the condition is the heading followed by the entries of
\* the listed operands, in the order of the operands
Lists(type, heading, listed, entries) ==
  LET message == ztwim.conditions[type].message
  IN  /\ Len(message) = 1 + Cardinality(listed)
      /\ message[1] = <<heading>>
      /\ \A i \in listed :
           message[1 + Cardinality({j \in listed : j <= i})] = entries[i]

\* C6: after an aggregator reconcile OperandsAvailable and Ready are both
\* True/Ready exactly when each of the four operand CRs was read and has
\* Ready True; any other operand keeps Ready from being True.
ReadyIffAllOperandsReady ==
  Aggregated =>
    /\ (TopLevelIs(OperandsAvailable, "True", "Ready") /\ TopLevelIs(Ready, "True", "Ready"))
         <=> \A k \in OperandKinds : ObservedReady(k)
    /\ (\E k \in OperandKinds : ~ObservedReady(k))
         => ztwim.conditions[Ready].status # "True"

AllOperandsObservedReady ==
  /\ Aggregated
  /\ \A k \in OperandKinds : ObservedReady(k)
  /\ TopLevelIs(Ready, "True", "Ready")

\* C7: when some operand is not ready, none is classified failed and at
\* least one is classified progressing, OperandsAvailable and Ready are
\* both False/InProgress and their message lists every progressing operand
\* as "(not created)" or "(reconciling)".
ProgressingOnlyIsInProgress ==
  LET entry == [i \in 1..Len(ztwim.operands) |->
                 <<ztwim.operands[i].kind,
                   IF ztwim.operands[i].message = <<"CR", "not", "found">>
                   THEN "(not created)" ELSE "(reconciling)">>]
  IN  (Aggregated /\ Classified("failed") = {} /\ Classified("progressing") # {})
        => /\ TopLevelIs(OperandsAvailable, "False", "InProgress")
           /\ TopLevelIs(Ready, "False", "InProgress")
           /\ Lists(Ready, "Waiting for operands:", Classified("progressing"), entry)
           /\ ztwim.conditions[OperandsAvailable].message = ztwim.conditions[Ready].message

NotCreatedAndReconcilingListed ==
  /\ Aggregated
  /\ Classified("failed") = {}
  /\ ~operands[SpireAgent].exists
  /\ operands[SpireServer].conditions[Ready].reason = "Reconciling"
  /\ ztwim.conditions[Ready].message =
       <<<<"Waiting for operands:">>, <<SpireServer, "(reconciling)">>,
         <<SpireAgent, "(not created)">>>>

\* C8: when at least one operand is classified failed, OperandsAvailable
\* and Ready are both False/Failed and their message lists kind/name of
\* every failed operand; every aggregation that is neither all ready nor
\* progressing only has this outcome.
FailedOperandIsFailed ==
  LET entry == [i \in 1..Len(ztwim.operands) |->
                 <<ztwim.operands[i].kind, "/", ztwim.operands[i].name>>]
      allReady == \A i \in 1..Len(ztwim.operands) : StringToBool(ztwim.operands[i].ready)
      progressingOnly == Classified("failed") = {} /\ Classified("progressing") # {}
  IN  (Aggregated /\ (Classified("failed") # {} \/ (~allReady /\ ~progressingOnly)))
        => /\ TopLevelIs(OperandsAvailable, "False", "Failed")
           /\ TopLevelIs(Ready, "False", "Failed")
           /\ Lists(Ready, "Some operands not ready:", Classified("failed"), entry)
           /\ ztwim.conditions[OperandsAvailable].message = ztwim.conditions[Ready].message

FailedAmongProgressingListed ==
  /\ Aggregated
  /\ Classified("progressing") # {}
  /\ Cardinality(Classified("failed")) = 2
  /\ ztwim.conditions[Ready].message =
       <<<<"Some operands not ready:">>, <<SpireServer, "/", "cluster">>,
         <<SpireOIDCDiscoveryProvider, "/", "cluster">>>>

UpgradeableIs(status, reason) ==
  /\ operatorCondition.upgradeable.status = status
  /\ operatorCondition.upgradeable.reason = reason

\* C9 as stated: after an aggregator reconcile Upgradeable is
\* False/OperandsNotReady exactly when create-only mode is active or some
\* operand CR exists and is not ready, and True otherwise.
UpgradeableIffOperandsReady ==
  LET blocked == \/ createOnlyMode
                 \/ \E k \in OperandKinds :
                      /\ operands[k].exists
                      /\ operands[k].conditions[Ready].status # "True"
  IN  (last.rec = ZTWIM /\ operatorCondition.exists)
        => /\ UpgradeableIs("False", "OperandsNotReady") <=> blocked
           /\ ~blocked => UpgradeableIs("True", "Ready")

\* C9: after an aggregator reconcile Upgradeable is False/OperandsNotReady
\* exactly when create-only mode is active or the top-level CR exists and
\* some operand CR was read and is not ready, or could not be read for
\* another reason than NotFound; otherwise it is True/Ready.  Operand CRs
\* that were not found never block, and no operand blocks while the
\* top-level CR does not exist.
UpgradeableIffObservedReady ==
  LET blocked == \/ createOnlyMode
                 \/ last.found /\ \E k \in OperandKinds : ObservedNotReady(k)
  IN  (last.rec = ZTWIM /\ operatorCondition.exists)
        => /\ UpgradeableIs("False", "OperandsNotReady") <=> blocked
           /\ ~blocked => UpgradeableIs("True", "Ready")

MissingOperandDoesNotBlock ==
  /\ Aggregated /\ operatorCondition.exists /\ ~createOnlyMode
  /\ ~operands[SpireAgent].exists
  /\ \A k \in OperandKinds \ {SpireAgent} : ObservedReady(k)
  /\ UpgradeableIs("True", "Ready")
  /\ TopLevelIs(Ready, "False", "InProgress")

(***************************************************************************)
(* Convergence of a fresh install.                                         *)
(***************************************************************************)
Converged ==
  /\ \A k \in OperandKinds :
       /\ operands[k].conditions[Ready].status = "True"
       /\ operands[k].conditions[Ready].reason = "Ready"
  /\ TopLevelIs(Ready, "True", "Ready")
  /\ UpgradeableIs("True", "Ready")

\* every reconciler has run to success since the last change of the
\* cluster and every workload has completed its rollout: no reconcile
\* changes anything from here on
Quiescent ==
  /\ \A r \in Reconcilers : settled[r]
  /\ \A k \in DaemonOperands : Workload(k) \in healthy

\* C5: a fresh install with valid specs, outside create-only mode, whose
\* workloads all become healthy, comes to rest only where the four operand
\* Ready conditions, the top-level Ready and Upgradeable are all
\* True/Ready.
FreshInstallConverges == Quiescent => Converged

====
